---- MODULE Spec2Model ----
(***************************************************************************)
(* Routing engine and retry executor of specado-core.                      *)
(*                                                                         *)
(*   providers/routing.rs  ProviderError, RoutingResult,                   *)
(*                         PrimaryWithFallbacks (new, with_*, route,       *)
(*                         execute_with_retry, execute_with_provider)      *)
(*   providers/retry.rs    RetryPolicy (calculate_delay, should_retry),    *)
(*                         RetryExecutor::execute, RetryResult             *)
(*                                                                         *)
(* One caller drives either a PrimaryWithFallbacks router or a             *)
(* RetryExecutor.  Both functions are async: the model splits them at      *)
(* their await points (the operation future and tokio::time::sleep).       *)
(* Durations are milliseconds.                                             *)
(***************************************************************************)
EXTENDS Integers, Sequences, FiniteSets, TLC

(***************************************************************************)
(* Bounds of the model.                                                    *)
(***************************************************************************)
\* largest max_retries of a caller-supplied RetryPolicy
MaxRetries == 2
\* largest number of fallback providers a router is built with
MaxFallbacks == 2

\* Option<T>: None and Some(x)
None == <<>>
Some(x) == <<x>>
Unwrap(o) == o[1]

(***************************************************************************)
(* ProviderError (routing.rs:18-42).  Message strings of the variants      *)
(* that carry one are the ones the repository produces.                    *)
(***************************************************************************)
RateLimit(retry_after) == [kind |-> "RateLimit", retry_after |-> retry_after]
Timeout == [kind |-> "Timeout"]
ServerError(status_code, message) ==
    [kind |-> "ServerError", status_code |-> status_code, message |-> message]
InvalidRequest(message) == [kind |-> "InvalidRequest", message |-> message]
AuthenticationError == [kind |-> "AuthenticationError"]
ModelNotAvailable(model) == [kind |-> "ModelNotAvailable", model |-> model]
NetworkError(message) == [kind |-> "NetworkError", message |-> message]
Custom(code, message) == [kind |-> "Custom", code |-> code, message |-> message]

\* Duration::from_secs
from_secs(s) == s * 1000

\* ProviderError::is_retryable (routing.rs:46-57)
is_retryable(e) ==
    CASE e.kind = "RateLimit" -> TRUE
      [] e.kind = "Timeout" -> TRUE
      [] e.kind = "ServerError" -> TRUE
      [] e.kind = "NetworkError" -> TRUE
      [] e.kind = "ModelNotAvailable" -> TRUE
      [] e.kind = "InvalidRequest" -> FALSE
      [] e.kind = "AuthenticationError" -> FALSE
      [] e.kind = "Custom" -> FALSE

\* ProviderError::retry_delay (routing.rs:60-68)
retry_delay(e) ==
    CASE e.kind = "RateLimit" -> e.retry_after
      [] e.kind = "Timeout" -> Some(from_secs(1))
      [] e.kind = "ServerError" -> Some(from_secs(2))
      [] e.kind = "NetworkError" -> Some(from_secs(1))
      [] OTHER -> None

\* {:?} of a Duration, for whole seconds and whole milliseconds below 1s
DurationDebug(ms) ==
    IF ms % 1000 = 0 THEN ToString(ms \div 1000) \o "s"
    ELSE ToString(ms) \o "ms"

\* impl Display for ProviderError (routing.rs:71-92)
ErrToString(e) ==
    CASE e.kind = "RateLimit" ->
            IF e.retry_after # None
            THEN "Rate limit exceeded, retry after "
                 \o DurationDebug(Unwrap(e.retry_after))
            ELSE "Rate limit exceeded"
      [] e.kind = "Timeout" -> "Request timeout"
      [] e.kind = "ServerError" ->
            "Server error (" \o ToString(e.status_code) \o "): " \o e.message
      [] e.kind = "InvalidRequest" -> "Invalid request: " \o e.message
      [] e.kind = "AuthenticationError" -> "Authentication failed"
      [] e.kind = "ModelNotAvailable" -> "Model '" \o e.model \o "' not available"
      [] e.kind = "NetworkError" -> "Network error: " \o e.message
      [] e.kind = "Custom" -> "Error [" \o e.code \o "]: " \o e.message

(***************************************************************************)
(* RetryPolicy (retry.rs:13-129).  exponential_base is the pair            *)
(* <<numerator, denominator>> of the f64 base, jitter_factor is given in   *)
(* percent.                                                               *)
(***************************************************************************)
\* impl Default for RetryPolicy (retry.rs:36-48)
DefaultPolicy ==
    [max_retries |-> 3, initial_delay_ms |-> 100, max_delay_ms |-> 10000,
     exponential_base |-> <<2, 1>>, jitter_factor |-> 10,
     respect_retry_after |-> TRUE, timeout_ms |-> Some(30000)]

\* the policies a caller passes to with_retry_policy / RetryExecutor::new:
\* without jitter, and with jitter (two or three delays to draw from)
Policies ==
    [max_retries : 0..MaxRetries, initial_delay_ms : {2}, max_delay_ms : {3},
     exponential_base : {<<2, 1>>}, jitter_factor : {0},
     respect_retry_after : BOOLEAN, timeout_ms : {None, Some(2)}]
    \cup
    [max_retries : {1, 2}, initial_delay_ms : {2}, max_delay_ms : {3},
     exponential_base : {<<2, 1>>}, jitter_factor : {25},
     respect_retry_after : BOOLEAN, timeout_ms : {None, Some(2)}]

RECURSIVE Pow(_, _)
Pow(b, k) == IF k = 0 THEN 1 ELSE b * Pow(b, k - 1)

Max(a, b) == IF a >= b THEN a ELSE b

\* capped_delay of calculate_delay (retry.rs:103-104) as the fraction
\* <<numerator, denominator>>
UncappedDelay(policy, attempt) ==
    <<policy.initial_delay_ms * Pow(policy.exponential_base[1], attempt),
      Pow(policy.exponential_base[2], attempt)>>
CappedDelay(policy, attempt) ==
    LET num == policy.initial_delay_ms * Pow(policy.exponential_base[1], attempt)
        den == Pow(policy.exponential_base[2], attempt)
    IN  IF num <= policy.max_delay_ms * den THEN <<num, den>>
        ELSE <<policy.max_delay_ms, 1>>

\* RetryPolicy::calculate_delay (retry.rs:94-117): the set of durations the
\* call can return (one value without jitter, the values of the uniform
\* draw, truncated by `as u64`, with jitter)
calculate_delay_capped_hint(policy, attempt, error) ==
    IF policy.respect_retry_after /\ retry_delay(error) # None
    THEN {IF Unwrap(retry_delay(error)) <= policy.max_delay_ms
          THEN Unwrap(retry_delay(error)) ELSE policy.max_delay_ms}
    ELSE {CappedDelay(policy, attempt)[1] \div CappedDelay(policy, attempt)[2]}
calculate_delay(policy, attempt, error) ==
    IF policy.respect_retry_after /\ retry_delay(error) # None
    THEN {Unwrap(retry_delay(error))}
    ELSE LET c == CappedDelay(policy, attempt)
             j == policy.jitter_factor
         IN  IF j > 0
             THEN Max(0, (c[1] * (100 - j)) \div (c[2] * 100))
                  .. ((c[1] * (100 + j)) \div (c[2] * 100))
             ELSE {c[1] \div c[2]}

\* RetryPolicy::should_retry (retry.rs:120-128)
should_retry_one_more(policy, error, attempt) ==
    IF attempt > policy.max_retries THEN FALSE ELSE is_retryable(error)
should_retry(policy, error, attempt) ==
    IF attempt >= policy.max_retries THEN FALSE ELSE is_retryable(error)

(***************************************************************************)
(* State.                                                                  *)
(***************************************************************************)
VARIABLES
    pc,             \* the caller's position
    primary,        \* PrimaryWithFallbacks.primary (the provider's name())
    fallbacks,      \* PrimaryWithFallbacks.fallbacks (their name()s)
    track_metadata, \* PrimaryWithFallbacks.track_metadata
    retry_policy,   \* PrimaryWithFallbacks.retry_policy : Option<RetryPolicy>
    request,        \* the ChatRequest given to route()
    result,         \* route()'s `result`
    cur,            \* provider route() is at: 0 the primary, idx + 1 a fallback
    ewr,            \* locals of execute_with_retry
    policy,         \* RetryExecutor.policy
    ex,             \* locals of RetryExecutor::execute
    ret,            \* what route() or execute() returned
    now,            \* the clock (ms)
    log,            \* history of the calls made and the sleeps slept, in order
    call,           \* the function applied on its own and its arguments
    returned,       \* what that function returned (None before it returns)
    info,           \* RateLimitTracker.info: the RateLimitInfo in the Mutex
    mutex,          \* the Mutex: the thread holding it (0: free), poisoned
    threads,        \* each thread's position in its call on the tracker
    calls,          \* tokens_used of the record_request calls that ended
    whole,          \* info when the threads start and after each of `calls`
    snaps           \* the RateLimitInfo values get_info returned

routerVars == <<primary, fallbacks, track_metadata, retry_policy>>
routeVars == <<request, result, cur, ewr>>
execVars == <<policy, ex>>
fnVars == <<call, returned>>
trackerVars == <<info, mutex, threads, calls, whole, snaps>>
vars == <<pc, routerVars, routeVars, execVars, ret, now, log, fnVars, trackerVars>>

\* entries of the history: a call of a provider (p = 0 the primary,
\* p = idx + 1 a fallback) or of the executor's operation (p = -1) returned
\* `out` at time `t`; a sleep of `d` ms after a call of p ended at time `t`
CallEvent(p, out, t) == [ev |-> "call", p |-> p, out |-> out, t |-> t]
SleptEvent(p, d, t) == [ev |-> "slept", p |-> p, d |-> d, t |-> t]

\* HashMap: the empty map and insert
EmptyMap == [k \in {} |-> TRUE]
Insert(m, k, v) == [x \in (DOMAIN m) \cup {k} |-> IF x = k THEN v ELSE m[x]]

\* names of the providers of ProviderType::create_provider (adapter.rs:98-103)
ProviderNames == {"openai", "anthropic"}

\* the substrings of request.model that execute_with_provider looks for
Markers == {"timeout-test", "rate-limit-test", "server-error-test", "auth-error-test"}

\* model strings of the requests, each as the set of markers it contains
Models ==
    {{}, {"timeout-test"}, {"rate-limit-test"}, {"server-error-test"},
     {"auth-error-test"}, {"timeout-test", "auth-error-test"},
     {"rate-limit-test", "server-error-test"}}

\* requests given to route(): `model` is the set of markers its model string
\* contains, `messages` the roles of its (text) messages; every optional
\* field is unset
Requests ==
    [model : Models, messages : {<<"user">>}]
    \cup [model : {{}, {"timeout-test"}}, messages : {<<"system", "user">>}]

\* str::contains on request.model
Contains(model, marker) == marker \in model

\* TransformationEngine::has_system_message (transform.rs:171-173)
has_system_message(req) == \E i \in 1..Len(req.messages) : req.messages[i] = "system"

\* TransformationEngine::transform_request (transform.rs:73-168) with source
\* OpenAI, on the requests of Requests: only the system-role merge applies
transform_request(req, target) ==
    IF target = "anthropic" /\ has_system_message(req)
    THEN [target |-> target, lossy |-> TRUE, reasons |-> <<"system_role.merged">>]
    ELSE [target |-> target, lossy |-> FALSE, reasons |-> <<>>]

Ok(v) == [ok |-> TRUE, value |-> v]
Err(e) == [ok |-> FALSE, error |-> e]

\* PrimaryWithFallbacks::execute_with_provider (routing.rs:227-285)
execute_with_provider(req, name) ==
    LET target == CASE name = "openai" -> "openai"
                    [] name = "anthropic" -> "anthropic"
                    [] OTHER -> "openai"
        transform_result == transform_request(req, target)
    IN  IF name = "openai" /\ Contains(req.model, "timeout-test")
        THEN Err(Timeout)
        ELSE IF name = "openai" /\ Contains(req.model, "rate-limit-test")
        THEN Err(RateLimit(Some(from_secs(5))))
        ELSE IF name = "openai" /\ Contains(req.model, "server-error-test")
        THEN Err(ServerError(503, "Service temporarily unavailable"))
        ELSE IF Contains(req.model, "auth-error-test")
        THEN Err(AuthenticationError)
        ELSE Ok(transform_result)

\* max_attempts of execute_with_retry (routing.rs:191-195)
max_attempts_one_more(rp) == IF rp # None THEN Unwrap(rp).max_retries + 2 ELSE 1
max_attempts(rp) == IF rp # None THEN Unwrap(rp).max_retries + 1 ELSE 1

\* the third component execute_with_retry returns (routing.rs:200, 223)
attempts_made(attempts) == attempts
provider_tried_count(attempts) == 1

\* locals of execute_with_retry at its entry (routing.rs:186-188)
EwrEntry == [attempts |-> 0, total_delay_ms |-> 0, error_history |-> <<>>, delay |-> 0]

\* the `result` route() starts from (routing.rs:291-299)
NewResult ==
    [response |-> None, transform_result |-> None, provider_used |-> "",
     used_fallback |-> FALSE, attempts |-> 0, provider_errors |-> EmptyMap,
     metadata |-> EmptyMap]

\* the provider at position c and the position the fallback loop visits next
ProviderAt(c) == IF c = 0 THEN primary ELSE fallbacks[c]
NextProviderSkipping(c) == c + 2
NextProvider(c) == c + 1

\* ---- construction -------------------------------------------------------

\* PrimaryWithFallbacks::new (routing.rs:151-158), RoutingBuilder::build
NewRouter ==
    /\ pc = "start"
    /\ \E p \in ProviderNames, n \in 0..MaxFallbacks :
         \E f \in [1..n -> ProviderNames] :
            /\ primary' = p
            /\ fallbacks' = f
    /\ track_metadata' = TRUE
    /\ retry_policy' = Some(DefaultPolicy)
    /\ pc' = "router"
    /\ UNCHANGED <<routeVars, execVars, ret, now, log, fnVars, trackerVars>>

\* with_metadata_tracking (routing.rs:161-164)
WithMetadataTracking ==
    /\ pc = "router"
    /\ \E enabled \in BOOLEAN : track_metadata' = enabled
    /\ UNCHANGED <<pc, primary, fallbacks, retry_policy, routeVars, execVars, ret, now, log, fnVars, trackerVars>>

\* with_retry_policy (routing.rs:167-170)
WithRetryPolicy ==
    /\ pc = "router"
    /\ \E p \in Policies : retry_policy' = Some(p)
    /\ UNCHANGED <<pc, primary, fallbacks, track_metadata, routeVars, execVars, ret, now, log, fnVars, trackerVars>>

\* without_retry (routing.rs:173-176)
WithoutRetry ==
    /\ pc = "router"
    /\ retry_policy' = None
    /\ UNCHANGED <<pc, primary, fallbacks, track_metadata, routeVars, execVars, ret, now, log, fnVars, trackerVars>>

\* ---- route() ------------------------------------------------------------

\* route() is called (routing.rs:290-303): result is initialised and
\* execute_with_retry is entered for the primary
RouteCall ==
    /\ pc = "router"
    /\ \E r \in Requests : request' = r
    /\ result' = NewResult
    /\ cur' = 0
    /\ ewr' = EwrEntry
    /\ pc' = "route_attempt"
    /\ UNCHANGED <<routerVars, execVars, ret, now, log, fnVars, trackerVars>>

\* metadata of the primary-success path (routing.rs:312-326)
PrimaryMetadata(tr, attempts, delay_ms) ==
    LET m1 == Insert(EmptyMap, "primary_provider", primary)
        m2 == Insert(m1, "fallback_used", FALSE)
        m3 == Insert(m2, "attempts", attempts)
        m4 == Insert(m3, "retry_delay_ms", delay_ms)
    IN  IF tr.lossy
        THEN Insert(Insert(m4, "transformation_lossy", TRUE), "lossy_reasons", tr.reasons)
        ELSE m4

\* metadata of the fallback-success path (routing.rs:353-372)
FallbackMetadata(res, tr, fallback_name, idx) ==
    LET m1 == Insert(res.metadata, "primary_provider", primary)
        m2 == Insert(m1, "fallback_provider", fallback_name)
        m3 == Insert(m2, "fallback_used", TRUE)
        m4 == Insert(m3, "fallback_index", idx)
        m5 == Insert(m4, "attempts", res.attempts)
        m6 == Insert(m5, "provider_errors", res.provider_errors)
    IN  IF tr.lossy
        THEN Insert(Insert(m6, "transformation_lossy", TRUE), "lossy_reasons", tr.reasons)
        ELSE m6

\* route() after execute_with_retry returned Some(tr) (routing.rs:305-328, 345-374)
RouteSuccess(tr, attempts, delay_ms) ==
    LET r1 == [result EXCEPT !.attempts = @ + attempts]
    IN  IF cur = 0
        THEN [r1 EXCEPT !.transform_result = Some(tr),
                        !.provider_used = primary,
                        !.metadata = IF track_metadata
                                     THEN PrimaryMetadata(tr, attempts, delay_ms)
                                     ELSE @]
        ELSE LET r2 == [r1 EXCEPT !.transform_result = Some(tr),
                                  !.provider_used = fallbacks[cur],
                                  !.used_fallback = TRUE]
             IN  [r2 EXCEPT !.metadata = IF track_metadata
                                         THEN FallbackMetadata(r2, tr, fallbacks[cur], cur - 1)
                                         ELSE @]

\* route() recording a failed provider (routing.rs:305, 331-333, 345, 377-379)
RecordPrimaryFailureOnly(errors, attempts) ==
    LET r1 == [result EXCEPT !.attempts = @ + attempts]
    IN  IF errors # <<>> /\ cur = 0
        THEN [r1 EXCEPT !.provider_errors =
                 Insert(@, ProviderAt(cur), ErrToString(errors[Len(errors)]))]
        ELSE r1
RecordFailure(errors, attempts) ==
    LET r1 == [result EXCEPT !.attempts = @ + attempts]
    IN  IF errors # <<>>
        THEN [r1 EXCEPT !.provider_errors =
                 Insert(@, ProviderAt(cur), ErrToString(errors[Len(errors)]))]
        ELSE r1

\* the primary's failure is returned to the caller (routing.rs:335-337)
SurfacesNoError(errors) == FALSE
SurfacesAnyProviderError(errors) ==
    errors # <<>> /\ ~is_retryable(errors[Len(errors)])
SurfacesPrimaryError(errors) ==
    cur = 0 /\ errors # <<>> /\ ~is_retryable(errors[Len(errors)])

\* the synthetic error of routing.rs:385-391; its message is kept as the
\* pair of values format! renders
AllProvidersFailed(res) ==
    Custom("ALL_PROVIDERS_FAILED",
           [attempts |-> res.attempts, errors |-> res.provider_errors])

\* one iteration of execute_with_retry's loop in which execute_with_provider
\* succeeds (routing.rs:197-201), and route() returning Ok
RouteAttemptOk ==
    /\ pc = "route_attempt"
    /\ ewr.attempts < max_attempts(retry_policy)
    /\ LET out == execute_with_provider(request, ProviderAt(cur))
       IN  /\ out.ok
           /\ result' = RouteSuccess(out.value, provider_tried_count(ewr.attempts + 1),
                                     ewr.total_delay_ms)
           /\ ret' = Ok(result')
    /\ log' = Append(log, CallEvent(cur, execute_with_provider(request, ProviderAt(cur)), now))
    /\ pc' = "done"
    /\ UNCHANGED <<routerVars, request, cur, ewr, execVars, now, fnVars, trackerVars>>

\* an iteration in which the provider fails and the loop decides to retry:
\* the delay is computed and the sleep begins (routing.rs:202-214)
RouteAttemptRetry ==
    /\ pc = "route_attempt"
    /\ ewr.attempts < max_attempts(retry_policy)
    /\ LET out == execute_with_provider(request, ProviderAt(cur))
           attempts == ewr.attempts + 1
       IN  /\ ~out.ok
           /\ retry_policy # None
           /\ attempts < max_attempts(retry_policy)
           /\ is_retryable(out.error)
           /\ \E delay \in calculate_delay(Unwrap(retry_policy), attempts - 1, out.error) :
                ewr' = [attempts |-> attempts,
                        total_delay_ms |-> ewr.total_delay_ms + delay,
                        error_history |-> Append(ewr.error_history, out.error),
                        delay |-> delay]
    /\ log' = Append(log, CallEvent(cur, execute_with_provider(request, ProviderAt(cur)), now))
    /\ pc' = "route_sleep"
    /\ UNCHANGED <<routerVars, request, result, cur, execVars, ret, now, fnVars, trackerVars>>

\* tokio::time::sleep(delay) completes (routing.rs:214)
RouteWake ==
    /\ pc = "route_sleep"
    /\ now' = now + ewr.delay
    /\ log' = Append(log, SleptEvent(cur, ewr.delay, now'))
    /\ pc' = "route_attempt"
    /\ UNCHANGED <<routerVars, routeVars, execVars, ret, fnVars, trackerVars>>

\* an iteration in which the provider fails for the last time: the loop
\* ends (routing.rs:215-223) and route() records the failure, then returns
\* the error, moves to the next fallback or reports that all failed
\* (routing.rs:329-392)
RouteAttemptFail ==
    /\ pc = "route_attempt"
    /\ ewr.attempts < max_attempts(retry_policy)
    /\ LET out == execute_with_provider(request, ProviderAt(cur))
           attempts == ewr.attempts + 1
           errors == Append(ewr.error_history, out.error)
           res == RecordFailure(errors, provider_tried_count(attempts))
       IN  /\ ~out.ok
           /\ ~(/\ retry_policy # None
                /\ attempts < max_attempts(retry_policy)
                /\ is_retryable(out.error))
           /\ result' = res
           /\ IF SurfacesPrimaryError(errors)
              THEN /\ ret' = Err(errors[Len(errors)])
                   /\ pc' = "done"
                   /\ UNCHANGED <<cur, ewr>>
              ELSE IF NextProvider(cur) <= Len(fallbacks)
              THEN /\ cur' = NextProvider(cur)
                   /\ ewr' = EwrEntry
                   /\ pc' = "route_attempt"
                   /\ UNCHANGED ret
              ELSE /\ ret' = Err(AllProvidersFailed(res))
                   /\ pc' = "done"
                   /\ UNCHANGED <<cur, ewr>>
    /\ log' = Append(log, CallEvent(cur, execute_with_provider(request, ProviderAt(cur)), now))
    /\ UNCHANGED <<routerVars, request, execVars, now, fnVars, trackerVars>>

\* ---- RetryExecutor -------------------------------------------------------

\* the errors the executor's operation returns
OpErrors ==
    {RateLimit(None), RateLimit(Some(from_secs(5))), Timeout,
     ModelNotAvailable("unknown"), AuthenticationError,
     InvalidRequest("Bad request"), Custom("E", "custom")}

\* how long one call of the operation takes
OpTimes == {0, 1}

\* RetryResult (retry.rs:133-148)
RetryResult(res, attempts, total_delay_ms, final_error, error_history) ==
    [result |-> res, attempts |-> attempts, total_delay_ms |-> total_delay_ms,
     final_error |-> final_error, error_history |-> error_history]

\* start_time.elapsed().as_millis() > timeout_ms (retry.rs:198-199)
timed_out(pol, start_time, t) ==
    pol.timeout_ms # None /\ t - start_time > Unwrap(pol.timeout_ms)

\* RetryExecutor::new (retry.rs:157-159)
NewExecutor ==
    /\ pc = "start"
    /\ \E p \in Policies : policy' = p
    /\ pc' = "executor"
    /\ UNCHANGED <<routerVars, routeVars, ex, ret, now, log, fnVars, trackerVars>>

\* execute() is called (retry.rs:162-173): the locals are initialised and
\* the operation is called for the first time
ExecCall ==
    /\ pc = "executor"
    /\ ex' = [attempts |-> 0, total_delay_ms |-> 0, error_history |-> <<>>,
              start_time |-> now, delay |-> 0]
    /\ pc' = "exec_op"
    /\ UNCHANGED <<routerVars, routeVars, policy, ret, now, log, fnVars, trackerVars>>

\* the operation returns Ok (retry.rs:174-182)
ExecOpOk ==
    /\ pc = "exec_op"
    /\ \E d \in OpTimes : now' = now + d
    /\ ret' = RetryResult(Some("Success"), ex.attempts, ex.total_delay_ms, None,
                          ex.error_history)
    /\ log' = Append(log, CallEvent(-1, Ok("Success"), now'))
    /\ pc' = "done"
    /\ UNCHANGED <<routerVars, routeVars, execVars, fnVars, trackerVars>>

\* the operation returns an error that is not retried (retry.rs:183-195)
ExecOpErrStop ==
    /\ pc = "exec_op"
    /\ \E d \in OpTimes, error \in OpErrors :
         /\ now' = now + d
         /\ ~should_retry(policy, error, ex.attempts)
         /\ ex' = [ex EXCEPT !.error_history = Append(@, error)]
         /\ ret' = RetryResult(None, ex.attempts, ex.total_delay_ms, Some(error),
                               ex'.error_history)
         /\ log' = Append(log, CallEvent(-1, Err(error), now'))
    /\ pc' = "done"
    /\ UNCHANGED <<routerVars, routeVars, policy, fnVars, trackerVars>>

\* the operation returns a retryable error after the total timeout has
\* passed (retry.rs:197-208)
ExecOpErrTimeout ==
    /\ pc = "exec_op"
    /\ \E d \in OpTimes, error \in OpErrors :
         /\ now' = now + d
         /\ should_retry(policy, error, ex.attempts)
         /\ timed_out(policy, ex.start_time, now')
         /\ ex' = [ex EXCEPT !.error_history = Append(@, error)]
         /\ ret' = RetryResult(None, ex.attempts, ex.total_delay_ms, Some(Timeout),
                               ex'.error_history)
         /\ log' = Append(log, CallEvent(-1, Err(error), now'))
    /\ pc' = "done"
    /\ UNCHANGED <<routerVars, routeVars, policy, fnVars, trackerVars>>

\* the operation returns a retryable error and the sleep begins
\* (retry.rs:183-214)
ExecOpErrRetry ==
    /\ pc = "exec_op"
    /\ \E d \in OpTimes, error \in OpErrors :
         /\ now' = now + d
         /\ should_retry(policy, error, ex.attempts)
         /\ ~timed_out(policy, ex.start_time, now')
         /\ \E delay \in calculate_delay(policy, ex.attempts, error) :
              ex' = [ex EXCEPT !.error_history = Append(@, error),
                               !.total_delay_ms = @ + delay,
                               !.delay = delay]
         /\ log' = Append(log, CallEvent(-1, Err(error), now'))
    /\ pc' = "exec_sleep"
    /\ UNCHANGED <<routerVars, routeVars, policy, ret, fnVars, trackerVars>>

\* the sleep completes and the operation is called again (retry.rs:214-215, 173)
ExecWake ==
    /\ pc = "exec_sleep"
    /\ now' = now + ex.delay
    /\ ex' = [ex EXCEPT !.attempts = @ + 1]
    /\ log' = Append(log, SleptEvent(-1, ex.delay, now'))
    /\ pc' = "exec_op"
    /\ UNCHANGED <<routerVars, routeVars, policy, ret, fnVars, trackerVars>>

\* ---- specification -------------------------------------------------------

\* the threads sharing a RateLimitTracker
Threads == {1, 2}

\* a u32 as two 16-bit limbs, n = hi * 65536 + lo: the counters of
\* RateLimitInfo keep their 32 bits
Limb == 65536
U32(n) == [hi |-> n \div Limb, lo |-> n % Limb]

\* RateLimitInfo::default (rate_limit.rs:31-43)
RateLimitInfo_default ==
    [requests_per_minute |-> None, tokens_per_minute |-> None,
     requests_remaining |-> None, tokens_remaining |-> None,
     reset_at |-> None, requests_used |-> U32(0), tokens_used |-> U32(0)]

\* a thread that is in no call; `done` counts the calls it has made
ThreadIdle == [pc |-> "idle", tokens_used |-> <<>>, done |-> 0]

\* RateLimitTracker::new (rate_limit.rs:53-57), no thread running yet
TrackerIdle ==
    /\ info = RateLimitInfo_default
    /\ mutex = [holder |-> 0, poisoned |-> FALSE]
    /\ threads = [t \in Threads |-> ThreadIdle]
    /\ calls = <<>>
    /\ whole = <<>>
    /\ snaps = {}

\* nothing is constructed and no call is in progress
Idle ==
    /\ TrackerIdle
    /\ pc = "start"
    /\ primary = "" /\ fallbacks = <<>> /\ track_metadata = FALSE
    /\ retry_policy = None
    /\ request = [model |-> {}, messages |-> <<>>]
    /\ result = NewResult
    /\ cur = 0
    /\ ewr = EwrEntry
    /\ policy = DefaultPolicy
    /\ ex = [attempts |-> 0, total_delay_ms |-> 0, error_history |-> <<>>,
             start_time |-> 0, delay |-> 0]
    /\ ret = None
    /\ now = 0
    /\ log = <<>>

\* no function is applied on its own
NoCall == [fn |-> "none"]

Init == Idle /\ call = NoCall /\ returned = None

Next ==
    \/ NewRouter \/ WithMetadataTracking \/ WithRetryPolicy \/ WithoutRetry
    \/ RouteCall \/ RouteAttemptOk \/ RouteAttemptRetry \/ RouteWake
    \/ RouteAttemptFail
    \/ NewExecutor \/ ExecCall \/ ExecOpOk \/ ExecOpErrStop \/ ExecOpErrTimeout
    \/ ExecOpErrRetry \/ ExecWake

Spec == Init /\ [][Next]_vars

\* the steps of a route() or execute() call that has started
Running ==
    \/ RouteAttemptOk \/ RouteAttemptRetry \/ RouteWake \/ RouteAttemptFail
    \/ ExecOpOk \/ ExecOpErrStop \/ ExecOpErrTimeout \/ ExecOpErrRetry \/ ExecWake

\* the runtime polls the future of a started call until it completes: the
\* call is awaited, the provider or operation returns and a sleep ends
FairSpec == Spec /\ WF_vars(Running)

TypeOK ==
    /\ pc \in {"start", "router", "route_attempt", "route_sleep", "executor",
               "exec_op", "exec_sleep", "done"}
    /\ cur \in 0..MaxFallbacks
    /\ now \in Nat

(***************************************************************************)
(* Properties.                                                             *)
(***************************************************************************)
RouteReturned == pc = "done" /\ "ok" \in DOMAIN ret
ExecReturned == pc = "done" /\ "final_error" \in DOMAIN ret

\* positions in the history of the calls of provider p
CallIdx(p) == {i \in 1..Len(log) : log[i].ev = "call" /\ log[i].p = p}
Tried(p) == CallIdx(p) # {}
LastIdx(p) == CHOOSE i \in CallIdx(p) : \A j \in CallIdx(p) : j <= i
\* what the last call of provider p returned
LastOut(p) == log[LastIdx(p)].out
\* route() has finished with provider p
Finished(p) == Tried(p) /\ (cur > p \/ pc = "done")

RetryableKinds == {"RateLimit", "Timeout", "ServerError", "NetworkError", "ModelNotAvailable"}
NonRetryableKinds == {"AuthenticationError", "InvalidRequest", "Custom"}

\* C1: within one route() the primary is executed before any fallback, the
\* fallbacks are executed in list order, none before every attempt on the
\* earlier ones has finished, and the attempts on one provider are serial: a
\* retry starts only after the previous attempt returned and its delay was
\* slept.
C1_OrderedSerialAttempts ==
    \A i \in 1..Len(log) : log[i].p >= 0 =>
        /\ (i = 1) => (log[i].ev = "call" /\ log[i].p = 0)
        /\ (i > 1) => (log[i - 1].p <= log[i].p /\ log[i].p <= log[i - 1].p + 1)
        /\ (log[i].ev = "call" /\ i > 1) =>
              IF log[i - 1].p = log[i].p
              THEN log[i - 1].ev = "slept"
              ELSE log[i - 1].ev = "call" /\ ~log[i - 1].out.ok
        /\ (log[i].ev = "slept") =>
              /\ i > 1
              /\ log[i - 1].ev = "call" /\ log[i - 1].p = log[i].p
              /\ ~log[i - 1].out.ok
              /\ log[i].t = log[i - 1].t + log[i].d

C1_Witness ==
    /\ RouteReturned
    /\ Tried(2)
    /\ \E i \in 1..Len(log) : log[i].ev = "slept" /\ log[i].p = 0
    /\ \E i \in 1..Len(log) : log[i].ev = "slept" /\ log[i].p = 1

\* C2: if the primary's last error is non-retryable (authentication,
\* invalid_request, custom) route() returns exactly that error and no
\* fallback is ever executed; if it is retryable route() does not return it
\* but goes on to the first fallback.
C2_PrimaryErrorDecidesFallback ==
    (Finished(0) /\ ~LastOut(0).ok) =>
        LET e == LastOut(0).error
        IN  /\ e.kind \in NonRetryableKinds =>
                /\ RouteReturned /\ ret = Err(e)
                /\ \A p \in 1..Len(fallbacks) : ~Tried(p)
            /\ e.kind \in RetryableKinds =>
                /\ ret # Err(e)
                /\ Len(fallbacks) > 0 =>
                     (Tried(1) \/ (pc = "route_attempt" /\ cur = 1))

C2_Witness ==
    /\ RouteReturned
    /\ Len(fallbacks) > 0
    /\ ret = Err(AuthenticationError)

\* number of calls of provider p
NumCalls(p) == Cardinality(CallIdx(p))

\* C3: every fallback runs under the same retry policy as the primary, a
\* terminal failure of a fallback of any kind (non-retryable ones included)
\* is never returned to the caller: the router goes on to the next fallback,
\* and it returns Ok at the first fallback that succeeds, executing no later
\* one.
C3_FallbackFailuresAdvance ==
    \A p \in 1..Len(fallbacks) :
        /\ (Finished(p) /\ ~LastOut(p).ok) =>
              /\ LastOut(p).error.kind \in RetryableKinds =>
                    NumCalls(p) = (IF retry_policy = None THEN 1
                                   ELSE Unwrap(retry_policy).max_retries + 1)
              /\ LastOut(p).error.kind \in NonRetryableKinds => NumCalls(p) = 1
              /\ ret # Err(LastOut(p).error)
              /\ IF p < Len(fallbacks)
                 THEN Tried(p + 1) \/ (pc = "route_attempt" /\ cur = p + 1)
                 ELSE RouteReturned /\ ~ret.ok /\ ret.error.kind = "Custom"
                      /\ ret.error.code = "ALL_PROVIDERS_FAILED"
        /\ (Tried(p) /\ LastOut(p).ok) =>
              /\ RouteReturned /\ ret.ok
              /\ ret.value.provider_used = fallbacks[p]
              /\ ret.value.used_fallback
              /\ \A q \in (p + 1)..Len(fallbacks) : ~Tried(q)

C3_Witness ==
    /\ RouteReturned
    /\ Tried(1) /\ ~LastOut(1).ok /\ LastOut(1).error.kind = "AuthenticationError"
    /\ Tried(2)

\* the providers route() has executed
TriedProviders == {p \in 0..Len(fallbacks) : Tried(p)}

\* C4: route() returns ALL_PROVIDERS_FAILED exactly when the primary ended
\* with a retryable error and every configured fallback failed too; the
\* error carries the provider-name -> error-string map, which holds for
\* each provider tried the string of the last error of its attempts.
C4_AllProvidersFailed ==
    RouteReturned =>
        LET all_failed ==
                /\ ~LastOut(0).ok
                /\ LastOut(0).error.kind \in RetryableKinds
                /\ \A p \in 1..Len(fallbacks) : Tried(p) /\ ~LastOut(p).ok
        IN  /\ (~ret.ok /\ ret.error.kind = "Custom"
                /\ ret.error.code = "ALL_PROVIDERS_FAILED") <=> all_failed
            /\ all_failed =>
                 LET errors == ret.error.message.errors
                 IN  /\ DOMAIN errors = {ProviderAt(p) : p \in TriedProviders}
                     /\ \A p \in TriedProviders :
                           errors[ProviderAt(p)] = ErrToString(LastOut(p).error)

C4_Witness ==
    /\ RouteReturned
    /\ ~ret.ok /\ ret.error.kind = "Custom" /\ ret.error.code = "ALL_PROVIDERS_FAILED"
    /\ Len(fallbacks) = 2
    /\ Cardinality(DOMAIN ret.error.message.errors) = 2
    /\ NumCalls(0) > 1

\* sum of the delays of the sleeps recorded in the first n entries of the
\* history after calls of provider p
RECURSIVE SleptTotal(_, _)
SleptTotal(p, n) ==
    IF n = 0 THEN 0
    ELSE SleptTotal(p, n - 1)
         + (IF log[n].ev = "slept" /\ log[n].p = p THEN log[n].d ELSE 0)

\* number of provider executions of the route() call
RouteCalls == Cardinality({i \in 1..Len(log) : log[i].ev = "call" /\ log[i].p >= 0})
\* sum of the delays route() slept, on all providers
RouteSlept ==
    LET RECURSIVE Total(_)
        Total(n) == IF n = 0 THEN 0
                    ELSE Total(n - 1) + (IF log[n].ev = "slept" THEN log[n].d ELSE 0)
    IN  Total(Len(log))

\* C5: on Ok the attempt count and the retry delay are cumulative
\* over every execution attempt on every provider tried (max_retries + 2
\* when the primary times out on all attempts and the first fallback
\* succeeds at once), and the metadata carries both totals on both paths.
C5_CumulativeAttempts ==
    (RouteReturned /\ ret.ok) =>
        /\ ret.value.attempts = RouteCalls
        /\ track_metadata =>
              /\ "attempts" \in DOMAIN ret.value.metadata
              /\ ret.value.metadata["attempts"] = RouteCalls
              /\ "retry_delay_ms" \in DOMAIN ret.value.metadata
              /\ ret.value.metadata["retry_delay_ms"] = RouteSlept

\* C6: on Ok RoutingResult.attempts is the number of providers tried,
\* whatever retries each consumed: 1 when the primary succeeds, i + 2 when
\* the fallback at index i succeeds.
C6_AttemptsIsProvidersTried ==
    (RouteReturned /\ ret.ok) =>
        LET p == log[Len(log)].p
        IN  /\ ret.value.provider_used = ProviderAt(p)
            /\ ret.value.used_fallback = (p > 0)
            /\ ret.value.attempts = (IF p = 0 THEN 1 ELSE (p - 1) + 2)

C6_Witness ==
    /\ RouteReturned /\ ret.ok
    /\ retry_policy = Some(DefaultPolicy)
    /\ ret.value.used_fallback
    /\ ret.value.attempts = 3
    /\ RouteCalls = 9

\* C7: whenever route() returns Ok the RoutingResult carries the response,
\* the transform outcome of the provider that succeeded and its name.
C7_ResponsePresent ==
    (RouteReturned /\ ret.ok) =>
        LET p == log[Len(log)].p
        IN  /\ ret.value.response # None
            /\ ret.value.transform_result = Some(log[Len(log)].out.value)
            /\ ret.value.provider_used = ProviderAt(p)

\* calls of a provider or of the operation are bounded by the policy
C8_Bounded ==
    /\ \A p \in 0..Len(fallbacks) :
          /\ NumCalls(p) <= (IF retry_policy = None THEN 1
                             ELSE Unwrap(retry_policy).max_retries + 1)
          /\ (Finished(p) /\ retry_policy = None) => NumCalls(p) = 1
          /\ (Tried(p) /\ ~LastOut(p).ok
              /\ LastOut(p).error.kind \in NonRetryableKinds) => NumCalls(p) = 1
    /\ NumCalls(-1) <= policy.max_retries + 1

\* C8: each provider is executed at most max_retries + 1 times per route()
\* (once without a retry policy, once when its error is non-retryable), the
\* executor calls its operation at most max_retries + 1 times, and a started
\* route() or execute() always returns.
C8_BoundedAndTerminates ==
    /\ []C8_Bounded
    /\ (pc \in {"route_attempt", "exec_op"}) ~> (pc = "done")

C8_Witness ==
    /\ RouteReturned
    /\ retry_policy # None /\ Unwrap(retry_policy).max_retries = 2
    /\ NumCalls(0) = 3 /\ Tried(1) /\ NumCalls(1) = 1

\* time of the first call of provider p
FirstCallTime(p) == log[CHOOSE i \in CallIdx(p) : \A j \in CallIdx(p) : i <= j].t

\* C9: in every retry loop under a policy with timeout_ms set, in the
\* executor and in the router alike, no retry is scheduled once the time
\* since the first attempt exceeds timeout_ms at the retry decision; a
\* timeout error is the terminal error instead.
C9_TotalTimeoutStopsRetries ==
    /\ (pc = "route_sleep" /\ retry_policy # None) =>
          ~timed_out(Unwrap(retry_policy), FirstCallTime(cur), now)
    /\ (pc = "exec_sleep") => ~timed_out(policy, ex.start_time, now)
    /\ (ExecReturned /\ ret.result = None
        /\ timed_out(policy, ex.start_time, now)
        /\ ret.attempts < policy.max_retries
        /\ log[Len(log)].out.error.kind \in RetryableKinds) =>
          ret.final_error = Some(Timeout)

\* the errors the operation returned, in the order of the history
OpErrorsReturned ==
    LET failed == SelectSeq(log, LAMBDA e : e.ev = "call" /\ e.p = -1 /\ ~e.out.ok)
    IN  [i \in 1..Len(failed) |-> failed[i].out.error]
\* the number of sleeps execute() slept
OpSleeps == Cardinality({i \in 1..Len(log) : log[i].ev = "slept" /\ log[i].p = -1})

\* C10: the RetryResult has exactly one of result / final_error set;
\* error_history is every error the operation returned, in order; attempts
\* is the number of retries performed: |error_history| on success,
\* |error_history| - 1 <= max_retries on failure; total_delay_ms is the sum
\* of the delays slept; on a failure not caused by the total timeout
\* final_error is the last entry of error_history.
C10_RetryResultShape ==
    ExecReturned =>
        LET n == Len(ret.error_history)
            by_timeout == /\ timed_out(policy, ex.start_time, now)
                          /\ ret.attempts < policy.max_retries
                          /\ ret.error_history[n].kind \in RetryableKinds
        IN  /\ (ret.result = None) # (ret.final_error = None)
            /\ ret.error_history = OpErrorsReturned
            /\ ret.attempts = OpSleeps
            /\ ret.result # None => ret.attempts = n
            /\ ret.result = None =>
                  /\ ret.attempts = n - 1
                  /\ ret.attempts <= policy.max_retries
                  /\ (n = 1 /\ ret.error_history[1].kind \in NonRetryableKinds)
                        => ret.attempts = 0
                  /\ ~by_timeout => ret.final_error = Some(ret.error_history[n])
            /\ ret.total_delay_ms = SleptTotal(-1, Len(log))

C10_Witness ==
    /\ ExecReturned
    /\ ret.result = None
    /\ ret.attempts = 2 /\ Len(ret.error_history) = 3
    /\ ret.total_delay_ms > 0
    /\ ret.final_error = Some(ret.error_history[3])
    /\ ret.error_history[1] # ret.error_history[3]

(***************************************************************************)
(* RetryPolicy::calculate_delay applied on its own.                        *)
(***************************************************************************)
\* largest attempt index calculate_delay is applied to
MaxAttempt == 5

\* the policies calculate_delay is applied with: the backoff of the
\* repository's tests (100 ms doubling up to 1000 ms), a fractional base, a
\* constant one, a cap below the initial delay, and a jitter of 10 percent
DelayPolicies ==
    [max_retries : {3}, initial_delay_ms : {100, 50}, max_delay_ms : {1000, 75},
     exponential_base : {<<2, 1>>, <<3, 2>>, <<1, 1>>}, jitter_factor : {0},
     respect_retry_after : BOOLEAN, timeout_ms : {None}]
    \cup
    [max_retries : {3}, initial_delay_ms : {100}, max_delay_ms : {1000, 75},
     exponential_base : {<<2, 1>>}, jitter_factor : {10},
     respect_retry_after : BOOLEAN, timeout_ms : {None}]

\* one error of every variant of ProviderError; the rate limit without a
\* Retry-After and with one above and one below the caps
DelayErrors ==
    {RateLimit(None), RateLimit(Some(from_secs(5))), RateLimit(Some(20)),
     Timeout, ServerError(503, "Service unavailable"),
     NetworkError("connection reset"), ModelNotAvailable("unknown"),
     AuthenticationError, InvalidRequest("Bad request"), Custom("E", "custom")}

DelayInit ==
    /\ Idle
    /\ call \in [fn : {"calculate_delay"}, policy : DelayPolicies,
                 attempt : 0..MaxAttempt, error : DelayErrors]
    /\ returned = None

\* policy.calculate_delay(attempt, &error) returns (retry.rs:94-117)
CalculateDelay ==
    /\ call.fn = "calculate_delay"
    /\ returned = None
    /\ \E d \in calculate_delay(call.policy, call.attempt, call.error) :
         returned' = Some(d)
    /\ UNCHANGED <<pc, routerVars, routeVars, execVars, ret, now, log, call,
                 trackerVars>>

DelayNext == CalculateDelay

DelaySpec == DelayInit /\ [][DelayNext]_vars

\* calculate_delay has returned
DelayReturned == call.fn = "calculate_delay" /\ returned # None

\* the delays of the spec's example, for attempts 0..5
ExampleDelays == <<100, 200, 400, 800, 1000, 1000>>

\* C11: with jitter_factor = 0 and respect_retry_after = false,
\* calculate_delay(k, e) is min(initial_delay_ms * base^k, max_delay_ms) in
\* whole milliseconds for every attempt index k and every error e; the
\* delays are non-decreasing in k and never exceed max_delay_ms; for
\* initial = 100, base = 2, max = 1000 the delays of k = 0..5 are
\* 100, 200, 400, 800, 1000, 1000.
C11_BackoffWithoutJitter ==
    (/\ DelayReturned
     /\ call.policy.jitter_factor = 0
     /\ ~call.policy.respect_retry_after) =>
        LET p == call.policy
            k == call.attempt
            d == Unwrap(returned)
            num == p.initial_delay_ms * Pow(p.exponential_base[1], k)
            den == Pow(p.exponential_base[2], k)
        IN  /\ IF num <= p.max_delay_ms * den
               THEN d * den <= num /\ num < (d + 1) * den
               ELSE d = p.max_delay_ms
            /\ d <= p.max_delay_ms
            /\ \A j \in 0..k : \A dj \in calculate_delay(p, j, call.error) : dj <= d
            /\ (/\ p.initial_delay_ms = 100 /\ p.exponential_base = <<2, 1>>
                /\ p.max_delay_ms = 1000 /\ k + 1 <= Len(ExampleDelays)) =>
                    d = ExampleDelays[k + 1]

\* the backoff was capped at max_delay_ms for an error that suggests a delay
C11_Witness ==
    /\ DelayReturned
    /\ call.policy.jitter_factor = 0
    /\ ~call.policy.respect_retry_after
    /\ call.policy.initial_delay_ms = 100
    /\ call.policy.exponential_base = <<2, 1>>
    /\ call.policy.max_delay_ms = 1000
    /\ call.attempt = 4
    /\ call.error = Timeout
    /\ returned = Some(1000)

\* C12: with respect_retry_after = true, for a rate-limit error carrying
\* Retry-After = s, calculate_delay returns exactly s for every attempt
\* index: it is not capped by max_delay_ms and not perturbed by jitter.
C12_RetryAfterVerbatim ==
    (/\ DelayReturned
     /\ call.policy.respect_retry_after
     /\ call.error.kind = "RateLimit"
     /\ call.error.retry_after # None) =>
        returned = call.error.retry_after

\* a Retry-After above max_delay_ms was returned by a policy with jitter
C12_Witness ==
    /\ DelayReturned
    /\ call.policy.respect_retry_after
    /\ call.policy.jitter_factor > 0
    /\ call.error = RateLimit(Some(from_secs(5)))
    /\ call.policy.max_delay_ms < from_secs(5)
    /\ call.attempt > 0
    /\ returned = Some(from_secs(5))

\* the errors that carry no Retry-After value
NoRetryAfter(e) ==
    \/ e.kind \in {"Timeout", "ServerError", "NetworkError", "ModelNotAvailable"}
    \/ e.kind = "RateLimit" /\ e.retry_after = None

\* C13: for an error that carries no Retry-After (timeout, server error,
\* network error, model-not-available, rate limit without retry_after)
\* calculate_delay returns the backoff min(initial_delay_ms * base^k,
\* max_delay_ms), within the jitter, whether respect_retry_after is true or
\* false.
C13_BackoffWithoutHint ==
    (DelayReturned /\ NoRetryAfter(call.error)) =>
        LET p == call.policy
            k == call.attempt
            d == Unwrap(returned)
            num == p.initial_delay_ms * Pow(p.exponential_base[1], k)
            den == Pow(p.exponential_base[2], k)
            cnum == IF num <= p.max_delay_ms * den THEN num ELSE p.max_delay_ms
            cden == IF num <= p.max_delay_ms * den THEN den ELSE 1
        IN  /\ (d + 1) * cden * 100 > cnum * (100 - p.jitter_factor)
            /\ d * cden * 100 <= cnum * (100 + p.jitter_factor)

(***************************************************************************)
(* The transformation engine (providers/transform.rs) applied on its own,  *)
(* with the providers of the repository as targets.  A text is the         *)
(* sequence of its pieces; a message is its role and its content.          *)
(***************************************************************************)
\* largest number of messages of a request
MaxMessages == 3

\* MessageRole (protocol/types.rs:16-27)
Roles == {"system", "user", "assistant", "function", "tool"}

\* MessageContent::Text and MessageContent::Parts
Text(t) == [kind |-> "Text", text |-> t]
Parts(parts) == [kind |-> "Parts", parts |-> parts]

\* ContentPart::Text and ContentPart::Image (protocol/types.rs:42-59)
TextPart(t) == [type |-> "text", text |-> t]
ImagePart == [type |-> "image"]

\* Message: the fields the engine reads or writes
Message(role, content) == [role |-> role, content |-> content]

\* format!("{}\n\n{}", a, b)
Joined(a, b) == a \o <<"\n\n">> \o b

\* OpenAIProvider::new (openai.rs:19-41)
OpenAIProvider ==
    [name |-> "openai",
     capabilities |->
        [supports_system_role |-> TRUE, supports_json_mode |-> TRUE,
         supports_functions |-> TRUE, supports_streaming |-> TRUE,
         max_context_tokens |-> 128000, supports_consecutive_same_role |-> TRUE,
         supports_temperature |-> TRUE, supports_top_p |-> TRUE,
         supports_max_tokens |-> TRUE]]

\* AnthropicProvider::new (anthropic.rs:19-39)
AnthropicProvider ==
    [name |-> "anthropic",
     capabilities |->
        [supports_system_role |-> FALSE, supports_json_mode |-> FALSE,
         supports_functions |-> FALSE, supports_streaming |-> TRUE,
         max_context_tokens |-> 200000, supports_consecutive_same_role |-> FALSE,
         supports_temperature |-> TRUE, supports_top_p |-> TRUE,
         supports_max_tokens |-> TRUE]]

\* TestProvider::new (tests/http_client_tests.rs:16-28) with
\* ProviderCapabilities::default() (adapter.rs:70-85)
TestProvider ==
    [name |-> "test",
     capabilities |->
        [supports_system_role |-> TRUE, supports_json_mode |-> FALSE,
         supports_functions |-> FALSE, supports_streaming |-> TRUE,
         max_context_tokens |-> 4096, supports_consecutive_same_role |-> TRUE,
         supports_temperature |-> TRUE, supports_top_p |-> TRUE,
         supports_max_tokens |-> TRUE]]

\* the implementations of the Provider trait
TargetProviders == {OpenAIProvider, AnthropicProvider, TestProvider}

\* TransformationEngine::has_system_message (transform.rs:171-173)
engine_has_system_message(req) ==
    \E i \in 1..Len(req.messages) : req.messages[i].role = "system"

\* one iteration of the loop of merge_system_messages (transform.rs:181-229)
\* on the accumulator [merged_messages, system_content, additional_reasons]
MergeSystemStep(acc, message) ==
    LET sep == IF acc.system_content # <<>> THEN <<"\n\n">> ELSE <<>>
    IN  CASE message.role = "system" /\ message.content.kind = "Text" ->
               [acc EXCEPT !.system_content = @ \o sep \o message.content.text]
          [] message.role = "system" /\ message.content.kind = "Parts" ->
               [acc EXCEPT
                  !.additional_reasons = Append(@, "content.parts.degraded_to_text"),
                  !.system_content =
                     @ \o sep \o <<"[System message with multimodal content]">>]
          [] message.role = "user" /\ acc.system_content # <<>>
                /\ message.content.kind = "Text" ->
               [acc EXCEPT
                  !.merged_messages =
                     Append(@, [message EXCEPT !.content =
                                  Text(Joined(acc.system_content, message.content.text))]),
                  !.system_content = <<>>]
          [] message.role = "user" /\ acc.system_content # <<>>
                /\ message.content.kind = "Parts" ->
               [acc EXCEPT
                  !.additional_reasons = Append(@, "content.parts.degraded_for_merge"),
                  !.merged_messages =
                     Append(@, [message EXCEPT !.content =
                                  Text(Joined(acc.system_content,
                                       <<"[User message with multimodal content]">>))]),
                  !.system_content = <<>>]
          [] OTHER -> [acc EXCEPT !.merged_messages = Append(@, message)]

RECURSIVE MergeSystemLoop(_, _, _)
MergeSystemLoop(acc, messages, i) ==
    IF i > Len(messages) THEN acc
    ELSE MergeSystemLoop(MergeSystemStep(acc, messages[i]), messages, i + 1)

\* TransformationEngine::merge_system_messages (transform.rs:176-247): the
\* new request.messages and the additional reasons returned
merge_system_messages_dropping_rest(messages) ==
    LET acc == MergeSystemLoop([merged_messages |-> <<>>, system_content |-> <<>>,
                                additional_reasons |-> <<>>], messages, 1)
    IN  [messages |-> acc.merged_messages,
         additional_reasons |-> acc.additional_reasons]
merge_system_messages(messages) ==
    LET acc == MergeSystemLoop([merged_messages |-> <<>>, system_content |-> <<>>,
                                additional_reasons |-> <<>>], messages, 1)
    IN  [messages |-> IF acc.system_content # <<>>
                      THEN Append(acc.merged_messages,
                                  Message("user", Text(acc.system_content)))
                      ELSE acc.merged_messages,
         additional_reasons |-> acc.additional_reasons]

\* TransformationEngine::has_consecutive_same_role (transform.rs:270-281)
has_consecutive_same_role(req) ==
    \E i \in 2..Len(req.messages) :
        /\ req.messages[i - 1].role = req.messages[i].role
        /\ req.messages[i].role # "system"

\* the merge of a message into the current group (transform.rs:293-320):
\* the group's new content and the reason pushed, if any
MergedContentKeepingLast(group, message) ==
    [content |-> message.content, reason |-> None]
MergedContent(group, message) ==
    CASE group.content.kind = "Text" /\ message.content.kind = "Text" ->
            [content |-> Text(Joined(group.content.text, message.content.text)),
             reason |-> None]
      [] group.content.kind = "Text" /\ message.content.kind = "Parts" ->
            [content |-> Text(Joined(group.content.text, <<"[Multimodal content]">>)),
             reason |-> Some("content.parts.degraded_in_merge")]
      [] group.content.kind = "Parts" /\ message.content.kind = "Text" ->
            [content |-> Text(Joined(<<"[Multimodal content]">>, message.content.text)),
             reason |-> Some("content.parts.degraded_in_merge")]
      [] OTHER ->
            [content |-> Text(<<"[Multiple multimodal messages merged]">>),
             reason |-> Some("content.parts.multiple_degraded")]

\* one iteration of the loop of merge_consecutive_same_role
\* (transform.rs:289-329) on [merged_messages, current_group, additional_reasons]
MergeSameRoleStep(acc, message) ==
    IF acc.current_group # None
    THEN LET group == Unwrap(acc.current_group)
         IN  IF group.role = message.role /\ message.role # "system"
             THEN LET m == MergedContent(group, message)
                  IN  [acc EXCEPT
                         !.current_group = Some([group EXCEPT !.content = m.content]),
                         !.additional_reasons = @ \o m.reason]
             ELSE [acc EXCEPT !.merged_messages = Append(@, group),
                              !.current_group = Some(message)]
    ELSE [acc EXCEPT !.current_group = Some(message)]

RECURSIVE MergeSameRoleLoop(_, _, _)
MergeSameRoleLoop(acc, messages, i) ==
    IF i > Len(messages) THEN acc
    ELSE MergeSameRoleLoop(MergeSameRoleStep(acc, messages[i]), messages, i + 1)

\* TransformationEngine::merge_consecutive_same_role (transform.rs:284-337)
merge_consecutive_same_role(messages) ==
    LET acc == MergeSameRoleLoop([merged_messages |-> <<>>, current_group |-> None,
                                  additional_reasons |-> <<>>], messages, 1)
    IN  [messages |-> acc.merged_messages \o acc.current_group,
         additional_reasons |-> acc.additional_reasons]

\* a text of 16400 characters, written as one piece
LongText == <<"x * 16400">>

\* str::len of one piece of a text (ASCII)
PieceLen(piece) == IF piece = "x * 16400" THEN 16400 ELSE Len(piece)

\* String::len of a text
RECURSIVE TextLen(_)
TextLen(t) == IF t = <<>> THEN 0 ELSE PieceLen(Head(t)) + TextLen(Tail(t))

\* the characters estimate_tokens counts for the parts of one message
\* (transform.rs:257-262)
RECURSIVE PartsChars(_)
PartsChars(parts) ==
    IF parts = <<>> THEN 0
    ELSE (IF Head(parts).type = "text" THEN TextLen(Head(parts).text) ELSE 1000)
         + PartsChars(Tail(parts))

RECURSIVE CharCount(_)
CharCount(messages) ==
    IF messages = <<>> THEN 0
    ELSE (IF Head(messages).content.kind = "Text"
          THEN TextLen(Head(messages).content.text)
          ELSE PartsChars(Head(messages).content.parts))
         + CharCount(Tail(messages))

\* TransformationEngine::estimate_tokens (transform.rs:250-267)
estimate_tokens(req) == CharCount(req.messages) \div 4

\* The steps of TransformationEngine::transform_request on
\* st = [transformed, lossy, reasons].
\* system role (transform.rs:83-88)
CheckSystemRole(target_caps, st) ==
    IF ~target_caps.supports_system_role /\ engine_has_system_message(st.transformed)
    THEN LET m == merge_system_messages(st.transformed.messages)
         IN  [transformed |-> [st.transformed EXCEPT !.messages = m.messages],
              lossy |-> TRUE,
              reasons |-> Append(st.reasons, "system_role.merged") \o m.additional_reasons]
    ELSE st

\* JSON mode (transform.rs:91-107)
CheckJsonModeNoReason(target_caps, st) ==
    IF st.transformed.response_format \in {Some("json_object"), Some("json_schema")}
       /\ ~target_caps.supports_json_mode
    THEN [st EXCEPT !.transformed.response_format = None, !.lossy = TRUE]
    ELSE st
CheckJsonMode(target_caps, st) ==
    IF st.transformed.response_format \in {Some("json_object"), Some("json_schema")}
       /\ ~target_caps.supports_json_mode
    THEN [transformed |-> [st.transformed EXCEPT !.response_format = None],
          lossy |-> TRUE,
          reasons |-> Append(st.reasons,
                        IF st.transformed.response_format = Some("json_schema")
                        THEN "response_format.json_schema.unsupported"
                        ELSE "response_format.json_mode.unsupported")]
    ELSE st

\* function calling (transform.rs:110-115)
CheckFunctionCalling(target_caps, st) ==
    IF st.transformed.tools # None /\ ~target_caps.supports_functions
    THEN [transformed |-> [st.transformed EXCEPT !.tools = None, !.tool_choice = None],
          lossy |-> TRUE,
          reasons |-> Append(st.reasons, "tools.function_calling.unsupported")]
    ELSE st

\* streaming (transform.rs:118-122)
CheckStreaming(target_caps, st) ==
    IF st.transformed.stream = Some(TRUE) /\ ~target_caps.supports_streaming
    THEN [transformed |-> [st.transformed EXCEPT !.stream = Some(FALSE)],
          lossy |-> TRUE,
          reasons |-> Append(st.reasons, "streaming.unsupported")]
    ELSE st

\* temperature (transform.rs:125-129)
CheckTemperature(target_caps, st) ==
    IF st.transformed.temperature # None /\ ~target_caps.supports_temperature
    THEN [transformed |-> [st.transformed EXCEPT !.temperature = None],
          lossy |-> TRUE,
          reasons |-> Append(st.reasons, "param.unsupported.temperature")]
    ELSE st

\* top_p (transform.rs:132-136)
CheckTopP(target_caps, st) ==
    IF st.transformed.top_p # None /\ ~target_caps.supports_top_p
    THEN [transformed |-> [st.transformed EXCEPT !.top_p = None],
          lossy |-> TRUE,
          reasons |-> Append(st.reasons, "param.unsupported.top_p")]
    ELSE st

\* consecutive same role (transform.rs:139-144)
CheckConsecutiveSameRole(target_caps, st) ==
    IF ~target_caps.supports_consecutive_same_role
       /\ has_consecutive_same_role(st.transformed)
    THEN LET m == merge_consecutive_same_role(st.transformed.messages)
         IN  [transformed |-> [st.transformed EXCEPT !.messages = m.messages],
              lossy |-> TRUE,
              reasons |-> Append(st.reasons, "messages.consecutive_same_role.unsupported")
                          \o m.additional_reasons]
    ELSE st

\* token limit (transform.rs:147-152)
CheckTokenLimit(target_caps, st) ==
    IF estimate_tokens(st.transformed) > target_caps.max_context_tokens
    THEN [st EXCEPT !.lossy = TRUE,
                    !.reasons = Append(@, "limits.max_tokens.exceeded")]
    ELSE st

\* AnthropicProvider::convert_messages (anthropic.rs:42-63)
convert_messages(messages) ==
    [i \in 1..Len(messages) |->
        IF messages[i].role = "system"
        THEN [messages[i] EXCEPT !.role = "user"]
        ELSE messages[i]]

\* Provider::transform_request of the target (openai.rs:53-70,
\* anthropic.rs:75-93, tests/http_client_tests.rs:39-41)
provider_transform_request(target, req) ==
    IF target.name = "anthropic"
    THEN LET r == [req EXCEPT !.messages = convert_messages(@)]
         IN  IF r.max_tokens # None
             THEN [r EXCEPT !.metadata =
                      Insert(@, "max_tokens_to_sample", Unwrap(r.max_tokens))]
             ELSE r
    ELSE req

\* the lossiness metadata of the outgoing request (transform.rs:158-161)
WriteLossyMetadata(lossy, reasons, req) ==
    IF lossy
    THEN [req EXCEPT !.metadata = Insert(Insert(@, "lossy", TRUE), "lossy_reasons", reasons)]
    ELSE req

\* TransformationEngine::transform_request (transform.rs:74-168)
engine_transform_request(target, req) ==
    LET target_caps == target.capabilities
        s0 == [transformed |-> req, lossy |-> FALSE, reasons |-> <<>>]
        s1 == CheckSystemRole(target_caps, s0)
        s2 == CheckJsonMode(target_caps, s1)
        s3 == CheckFunctionCalling(target_caps, s2)
        s4 == CheckStreaming(target_caps, s3)
        s5 == CheckTemperature(target_caps, s4)
        s6 == CheckTopP(target_caps, s5)
        s7 == CheckConsecutiveSameRole(target_caps, s6)
        s8 == CheckTokenLimit(target_caps, s7)
        hooked == provider_transform_request(target, s8.transformed)
    IN  [transformed |-> WriteLossyMetadata(s8.lossy, s8.reasons, hooked),
         lossy |-> s8.lossy,
         reasons |-> s8.reasons]

\* ChatRequest::new (protocol/types.rs:565-585): the fields the engine and
\* the providers read or write
ChatRequest_new(model, messages) ==
    [model |-> model, messages |-> messages, temperature |-> None,
     max_tokens |-> None, top_p |-> None, stream |-> None,
     response_format |-> None, tools |-> None, tool_choice |-> None,
     stop |-> None, metadata |-> EmptyMap]

\* the contents a message of a request has: a text of its own (the i-th
\* message's is "m<i>"), the empty text, or parts holding one image
ContentKinds == {"text", "empty", "parts"}
ContentAt(i, ck) ==
    CASE ck = "text" -> Text(<<"m" \o ToString(i)>>)
      [] ck = "empty" -> Text(<<>>)
      [] ck = "parts" -> Parts(<<ImagePart>>)

\* a message list of n messages: f gives message i its role and its kind of
\* content
MessageList(n, f) ==
    [i \in 1..n |-> Message(f[i][1], ContentAt(i, f[i][2]))]

\* the message lists of the requests that set optional fields
OptionMessageLists ==
    {<<>>,
     <<Message("user", Text(<<"m1">>))>>,
     <<Message("system", Text(<<"m1">>)), Message("user", Text(<<"m2">>))>>,
     <<Message("user", Text(<<"m1">>)), Message("user", Text(<<"m2">>))>>,
     <<Message("user", Text(LongText))>>}

\* the metadata a caller gives a request: none, its own keys, or the
\* lossiness keys of an earlier transformation
CallerMetadata ==
    {EmptyMap,
     Insert(EmptyMap, "request_id", "test-123"),
     Insert(Insert(EmptyMap, "lossy", TRUE), "lossy_reasons", <<"system_role.merged">>)}

\* the message list of tests/transformation_tests.rs:111-137
ExampleMessageLists ==
    {<<Message("user", Text(<<"A">>)), Message("user", Text(<<"B">>)),
       Message("user", Text(<<"C">>)), Message("assistant", Text(<<"D">>))>>}

\* the requests that set optional fields
OptionRequests ==
    [model : {"gpt-4"}, messages : OptionMessageLists,
     temperature : {None, Some(1)}, max_tokens : {None, Some(100)},
     top_p : {None, Some(1)}, stream : {None, Some(TRUE), Some(FALSE)},
     response_format : {None, Some("text"), Some("json_object"), Some("json_schema")},
     tools : {None, Some(<<>>)}, tool_choice : {None, Some("auto")},
     stop : {None}, metadata : CallerMetadata]

\* the requests given to the engine: ChatRequest::new of every message
\* list of up to MaxMessages messages and of the example list, and the
\* requests that set optional fields
TransformInit ==
    /\ Idle
    /\ \E target \in TargetProviders :
          \/ \E n \in 0..MaxMessages :
                \E f \in [1..n -> Roles \X ContentKinds] :
                   call = [fn |-> "transform_request", target |-> target,
                           request |-> ChatRequest_new("gpt-4", MessageList(n, f))]
          \/ \E ms \in ExampleMessageLists :
                call = [fn |-> "transform_request", target |-> target,
                        request |-> ChatRequest_new("gpt-4", ms)]
          \/ \E req \in OptionRequests :
                call = [fn |-> "transform_request", target |-> target,
                        request |-> req]
    /\ returned = None

\* engine.transform_request(request) returns (transform.rs:74-168)
TransformRequest ==
    /\ call.fn = "transform_request"
    /\ returned = None
    /\ returned' = Some(engine_transform_request(call.target, call.request))
    /\ UNCHANGED <<pc, routerVars, routeVars, execVars, ret, now, log, call,
                 trackerVars>>

TransformNext == TransformRequest

TransformSpec == TransformInit /\ [][TransformNext]_vars

\* transform_request has returned: its arguments and its TransformResult
Transformed == call.fn = "transform_request" /\ returned # None

\* C14: for every request and target, the TransformResult has lossy = true
\* if and only if its reasons list is non-empty.
C14_LossyIffReasons ==
    Transformed =>
        (Unwrap(returned).lossy <=> Unwrap(returned).reasons # <<>>)

\* a lossy result with several reasons has been returned
C14_Witness ==
    /\ Transformed
    /\ Unwrap(returned).lossy
    /\ Len(Unwrap(returned).reasons) >= 3

\* C15: for every request and target, lossless or lossy, the metadata of the
\* transformed request has the key lossy, equal to TransformResult.lossy,
\* and the key lossy_reasons, equal to TransformResult.reasons.
C15_LossyMetadataAlways ==
    Transformed =>
        LET r == Unwrap(returned)
        IN  /\ "lossy" \in DOMAIN r.transformed.metadata
            /\ "lossy_reasons" \in DOMAIN r.transformed.metadata
            /\ r.transformed.metadata["lossy"] = r.lossy
            /\ r.transformed.metadata["lossy_reasons"] = r.reasons

\* the text t begins the text u; the text t occurs in the text u
IsPrefix(t, u) == Len(t) <= Len(u) /\ SubSeq(u, 1, Len(t)) = t
IsInfix(t, u) ==
    \E i \in 0..(Len(u) - Len(t)) : SubSeq(u, i + 1, i + Len(t)) = t

\* the engine merged the system messages of the request
SystemMerged ==
    /\ Transformed
    /\ ~call.target.capabilities.supports_system_role
    /\ engine_has_system_message(call.request)

\* C16 as stated: for a request with at least one system message and a
\* target lacking the system role, the transformed request has no
\* system-role message and the text of every system message of the input is
\* a prefix of the text of some user message of the output.
C16_SystemTextIsPrefix ==
    SystemMerged =>
        LET in == call.request.messages
            out == Unwrap(returned).transformed.messages
        IN  /\ \A j \in 1..Len(out) : out[j].role # "system"
            /\ \A i \in 1..Len(in) :
                  (in[i].role = "system" /\ in[i].content.kind = "Text") =>
                     \E j \in 1..Len(out) :
                        /\ out[j].role = "user"
                        /\ out[j].content.kind = "Text"
                        /\ IsPrefix(in[i].content.text, out[j].content.text)

\* C16 amended: for a request with at least one system message and a target
\* lacking the system role, the transformed request has no system-role
\* message and the text of every system message of the input that has a
\* non-empty text occurs verbatim in the text of some user message of the
\* output.
C16_SystemTextKept ==
    SystemMerged =>
        LET in == call.request.messages
            out == Unwrap(returned).transformed.messages
        IN  /\ \A j \in 1..Len(out) : out[j].role # "system"
            /\ \A i \in 1..Len(in) :
                  (/\ in[i].role = "system" /\ in[i].content.kind = "Text"
                   /\ in[i].content.text # <<>>) =>
                     \E j \in 1..Len(out) :
                        /\ out[j].role = "user"
                        /\ out[j].content.kind = "Text"
                        /\ IsInfix(in[i].content.text, out[j].content.text)

\* two system messages were joined in front of a user message, the second
\* of them not at the start of the merged text
C16_Witness ==
    /\ SystemMerged
    /\ Len(call.request.messages) = 3
    /\ call.request.messages[1] = Message("system", Text(<<"m1">>))
    /\ call.request.messages[2] = Message("system", Text(<<"m2">>))
    /\ call.request.messages[3] = Message("user", Text(<<"m3">>))
    /\ Unwrap(returned).transformed.messages =
          <<Message("user", Text(<<"m1", "\n\n", "m2", "\n\n", "m3">>))>>

\* the positions at which a run of messages of one non-system role begins
\* (a system message is a run of its own), the position at which the run
\* beginning at i ends, and the number of runs up to position i
RunStarts(ms) ==
    {i \in 1..Len(ms) : i = 1 \/ ms[i - 1].role # ms[i].role \/ ms[i].role = "system"}
RunEnd(ms, i) ==
    CHOOSE j \in i..Len(ms) :
        /\ \A l \in (i + 1)..j : l \notin RunStarts(ms)
        /\ j = Len(ms) \/ (j + 1) \in RunStarts(ms)
RunRank(ms, i) == Cardinality({s \in RunStarts(ms) : s <= i})
AllText(ms, i, j) == \A l \in i..j : ms[l].content.kind = "Text"

\* the texts of the messages i..j joined in order by a blank line
RECURSIVE JoinTexts(_, _, _)
JoinTexts(ms, i, j) ==
    IF i = j THEN ms[i].content.text
    ELSE JoinTexts(ms, i, j - 1) \o <<"\n\n">> \o ms[j].content.text

\* transform_request has returned for a target that forbids consecutive
\* messages of one role
SameRoleForbidden ==
    Transformed /\ ~call.target.capabilities.supports_consecutive_same_role

NoAdjacentSameRole(out) ==
    \A k \in 2..Len(out) : out[k - 1].role = out[k].role => out[k].role = "system"

\* C17 as stated: for a target that forbids consecutive same-role messages,
\* no two adjacent messages of the transformed request share a non-system
\* role, each maximal run of equal-role text messages of the input is
\* replaced by one message of that role whose text is the run's texts joined
\* in order by a blank line, and the reason
\* messages.consecutive_same_role.unsupported is recorded when a run was
\* merged.
C17_InputRunsJoined ==
    SameRoleForbidden =>
        LET in == call.request.messages
            out == Unwrap(returned).transformed.messages
        IN  /\ NoAdjacentSameRole(out)
            /\ \A i \in RunStarts(in) :
                  (in[i].role # "system" /\ AllText(in, i, RunEnd(in, i))) =>
                     \E k \in 1..Len(out) :
                        /\ out[k].role = in[i].role
                        /\ out[k].content = Text(JoinTexts(in, i, RunEnd(in, i)))
            /\ has_consecutive_same_role(call.request) =>
                  \E n \in 1..Len(Unwrap(returned).reasons) :
                     Unwrap(returned).reasons[n]
                        = "messages.consecutive_same_role.unsupported"

\* the messages as they stand when the consecutive-same-role step begins:
\* the request's, after the system-role merge if the target lacks the role
AfterSystemMerge ==
    IF ~call.target.capabilities.supports_system_role
       /\ engine_has_system_message(call.request)
    THEN merge_system_messages(call.request.messages).messages
    ELSE call.request.messages

\* C17 amended: for a target that forbids consecutive same-role messages, no
\* two adjacent messages of the transformed request share a non-system role;
\* the transformed request has one message for each maximal run of
\* equal-role messages of the request as it stands after the system-role
\* merge (the input itself when it has no system message), in order and of
\* the run's role, and for a run of text messages its text is the run's
\* texts joined in order by a blank line; the reason
\* messages.consecutive_same_role.unsupported is recorded when a run was
\* merged.
C17_RunsJoined ==
    SameRoleForbidden =>
        LET mid == AfterSystemMerge
            out == Unwrap(returned).transformed.messages
        IN  /\ NoAdjacentSameRole(out)
            /\ Len(out) = Cardinality(RunStarts(mid))
            /\ \A i \in RunStarts(mid) :
                  LET k == RunRank(mid, i)
                  IN  /\ out[k].role = (IF mid[i].role = "system" THEN "user"
                                        ELSE mid[i].role)
                      /\ AllText(mid, i, RunEnd(mid, i)) =>
                            out[k].content = Text(JoinTexts(mid, i, RunEnd(mid, i)))
            /\ has_consecutive_same_role(call.request) =>
                  \E n \in 1..Len(Unwrap(returned).reasons) :
                     Unwrap(returned).reasons[n]
                        = "messages.consecutive_same_role.unsupported"

\* user A, user B, user C, assistant D became user "A\n\nB\n\nC", assistant D
C17_Witness ==
    /\ SameRoleForbidden
    /\ call.request.messages \in ExampleMessageLists
    /\ Unwrap(returned).transformed.messages =
          <<Message("user", Text(<<"A", "\n\n", "B", "\n\n", "C">>)),
            Message("assistant", Text(<<"D">>))>>
    /\ "messages.consecutive_same_role.unsupported"
          \in {Unwrap(returned).reasons[n] : n \in 1..Len(Unwrap(returned).reasons)}

(***************************************************************************)
(* CapabilityComparison::compare (capabilities/comparison.rs) applied on   *)
(* its own.  A Capability is the record of the fields compare reads; the   *)
(* human-readable `details` of the report are left out.                    *)
(***************************************************************************)
\* impl Default for Capability (capabilities/mod.rs:142-205,
\* modality.rs:118-132, constraints.rs:103-138)
DefaultCapability ==
    [features |-> [function_calling |-> FALSE, json_mode |-> FALSE,
                   streaming |-> FALSE, vision |-> FALSE, tool_use |-> FALSE],
     modalities |-> [input |-> {"Text"}, output |-> {"Text"}],
     parameters |-> [temperature |-> [supported |-> FALSE],
                     max_tokens |-> [max |-> None]],
     roles |-> [system |-> FALSE, function |-> FALSE],
     constraints |-> [tokens |-> [max_context_window |-> Some(4096)],
                      rate_limits |-> [requests_per_minute |-> None]]]

\* LossinessType (comparison.rs:52-76)
MissingFeature(name) == [type |-> "MissingFeature", name |-> name]
MissingModality(name) == [type |-> "MissingModality", name |-> name]
ConstrainedParameter(name) == [type |-> "ConstrainedParameter", name |-> name]
MissingRole(name) == [type |-> "MissingRole", name |-> name]
TokenLimitExceeded == [type |-> "TokenLimitExceeded", name |-> ""]
RateLimitReduced == [type |-> "RateLimitReduced", name |-> ""]

\* LossinessSeverity and its derived order (comparison.rs:79-95)
SeverityRank(severity) ==
    CASE severity = "None" -> 0
      [] severity = "Low" -> 1
      [] severity = "Medium" -> 2
      [] severity = "High" -> 3
      [] severity = "Critical" -> 4

\* the orders in which a HashSet can be iterated
Orders(S) ==
    {o \in [1..Cardinality(S) -> S] :
        \A i, j \in 1..Cardinality(S) : i # j => o[i] # o[j]}

\* Vec::push if the condition holds
PushIf(cond, x) == IF cond THEN <<x>> ELSE <<>>

\* CapabilityComparison::compare_features (comparison.rs:151-189): the
\* names pushed to `missing`, each also pushed as MissingFeature
compare_features_by_name(source, target) ==
    PushIf(source.features.function_calling /\ ~target.features.function_calling,
           "function_calling")
    \o PushIf(source.features.json_mode /\ ~target.features.json_mode, "json_mode")
    \o PushIf(source.features.streaming /\ ~target.features.streaming, "streaming")
    \o PushIf(source.features.vision /\ ~target.features.vision, "vision")
    \o PushIf(source.features.tool_use /\ ~target.features.tool_use, "tool_use")
compare_features(source, target) ==
    PushIf(source.features.function_calling /\ ~target.features.function_calling,
           "function_calling")
    \o PushIf(source.features.json_mode /\ ~target.features.json_mode, "json_mode")
    \o PushIf(source.features.streaming /\ ~target.features.streaming, "streaming")
    \o PushIf(source.features.vision /\ ~target.features.vision, "vision")
    \o PushIf(/\ source.features.tool_use /\ ~target.features.tool_use
              /\ ~target.features.function_calling, "tool_use")

\* CapabilityComparison::compare_parameters (comparison.rs:217-249): the
\* ConstrainedParameter names pushed
compare_parameters(source, target) ==
    PushIf(/\ source.parameters.temperature.supported
           /\ ~target.parameters.temperature.supported, "temperature")
    \o PushIf(/\ source.parameters.max_tokens.max # None
              /\ target.parameters.max_tokens.max # None
              /\ Unwrap(target.parameters.max_tokens.max)
                    < Unwrap(source.parameters.max_tokens.max), "max_tokens")

\* CapabilityComparison::compare_roles (comparison.rs:251-269): the roles
\* pushed as MissingRole
compare_roles(source, target) ==
    PushIf(source.roles.system /\ ~target.roles.system, "system")
    \o PushIf(source.roles.function /\ ~target.roles.function, "function")

\* CapabilityComparison::compare_constraints (comparison.rs:271-311): the
\* lossiness types pushed
compare_constraints(source, target) ==
    LET sc == source.constraints  tc == target.constraints
    IN  PushIf(/\ sc.tokens.max_context_window # None
               /\ tc.tokens.max_context_window # None
               /\ Unwrap(tc.tokens.max_context_window)
                     < Unwrap(sc.tokens.max_context_window), TokenLimitExceeded)
        \o PushIf(/\ sc.rate_limits.requests_per_minute # None
                  /\ tc.rate_limits.requests_per_minute # None
                  /\ Unwrap(tc.rate_limits.requests_per_minute)
                        < Unwrap(sc.rate_limits.requests_per_minute), RateLimitReduced)

\* the severity of one lossiness type (comparison.rs:356-378)
SeverityOf(loss_type) ==
    CASE loss_type.type = "MissingFeature" ->
            (CASE loss_type.name \in {"function_calling", "tool_use"} -> "High"
               [] loss_type.name = "json_mode" -> "Medium"
               [] loss_type.name = "streaming" -> "Low"
               [] OTHER -> "Medium")
      [] loss_type.type = "MissingModality" -> "Critical"
      [] loss_type.type = "TokenLimitExceeded" -> "High"
      [] loss_type.type = "ConstrainedParameter" -> "Medium"
      [] loss_type.type = "MissingRole" ->
            (IF loss_type.name = "system" THEN "Medium" ELSE "Low")
      [] loss_type.type = "RateLimitReduced" -> "Low"
      [] loss_type.type = "UnsupportedFormat" -> "High"
      [] loss_type.type = "MissingExtension" -> "Low"

RECURSIVE MaxSeverity(_, _)
MaxSeverity(lossiness_types, max_severity) ==
    IF lossiness_types = <<>> THEN max_severity
    ELSE MaxSeverity(Tail(lossiness_types),
                     IF SeverityRank(SeverityOf(Head(lossiness_types)))
                           > SeverityRank(max_severity)
                     THEN SeverityOf(Head(lossiness_types)) ELSE max_severity)

\* CapabilityComparison::determine_severity (comparison.rs:348-386)
determine_severity_from_low(lossiness_types) == MaxSeverity(lossiness_types, "Low")
determine_severity(lossiness_types) ==
    IF lossiness_types = <<>> THEN "None" ELSE MaxSeverity(lossiness_types, "Low")

\* CapabilityComparison::generate_recommendations (comparison.rs:313-346)
generate_recommendations(lossiness_types) ==
    LET has(P(_)) == \E i \in 1..Len(lossiness_types) : P(lossiness_types[i])
        IsFunctionCalling(t) == t = MissingFeature("function_calling")
        IsTokenLimit(t) == t = TokenLimitExceeded
        IsModality(t) == t.type = "MissingModality"
    IN  PushIf(has(IsFunctionCalling),
               "Consider using tool_use format if target supports it, or restructure request without functions")
        \o PushIf(has(IsTokenLimit),
                  "Consider chunking the input or using a model with larger context window")
        \o PushIf(has(IsModality),
                  "Consider preprocessing multimodal inputs or using a multimodal-capable provider")

\* CapabilityComparison::compare (comparison.rs:107-149) with
\* compare_modalities (comparison.rs:191-215): the results it can return,
\* one for each order in which the modality sets are iterated
compare(source, target) ==
    LET features == compare_features(source, target)
        parameters == compare_parameters(source, target)
        roles == compare_roles(source, target)
        constraints == compare_constraints(source, target)
        Result(inputs, outputs) ==
            LET lossiness_types ==
                    [i \in 1..Len(features) |-> MissingFeature(features[i])]
                    \o [i \in 1..Len(inputs) |-> MissingModality(inputs[i])]
                    \o [i \in 1..Len(outputs) |-> MissingModality(outputs[i])]
                    \o [i \in 1..Len(parameters) |-> ConstrainedParameter(parameters[i])]
                    \o [i \in 1..Len(roles) |-> MissingRole(roles[i])]
                    \o constraints
            IN  [missing_capabilities |->
                    features
                    \o [i \in 1..Len(inputs) |-> "input_" \o inputs[i]]
                    \o [i \in 1..Len(outputs) |-> "output_" \o outputs[i]]
                    \o [i \in 1..Len(roles) |-> roles[i] \o "_role"],
                 constrained_capabilities |->
                    PushIf(\E i \in 1..Len(parameters) : parameters[i] = "max_tokens",
                           "max_tokens")
                    \o PushIf(\E i \in 1..Len(constraints) :
                                 constraints[i] = TokenLimitExceeded, "context_window"),
                 additional_capabilities |-> <<>>,
                 lossiness_report |->
                    [is_lossy |-> lossiness_types # <<>>,
                     lossiness_types |-> lossiness_types,
                     severity |-> determine_severity(lossiness_types),
                     recommendations |-> generate_recommendations(lossiness_types)]]
    IN  {Result(inputs, outputs) :
            inputs \in Orders(source.modalities.input \ target.modalities.input),
            outputs \in Orders(source.modalities.output \ target.modalities.output)}

\* the capabilities compared: every combination of the feature flags, of
\* the modalities and roles, and of the parameters and limits compare
\* reads, each with the defaults elsewhere
FeatureCapabilities ==
    {[DefaultCapability EXCEPT !.features = f] :
        f \in [function_calling : BOOLEAN, json_mode : BOOLEAN, streaming : BOOLEAN,
               vision : BOOLEAN, tool_use : BOOLEAN]}
ModalityCapabilities ==
    {[DefaultCapability EXCEPT !.modalities = m, !.roles = r] :
        m \in [input : {{"Text"}, {"Text", "Image", "Audio"}},
               output : {{"Text"}, {"Text", "Image"}}],
        r \in [system : BOOLEAN, function : BOOLEAN]}
LimitCapabilities ==
    {[DefaultCapability EXCEPT !.parameters = p, !.constraints = c] :
        p \in [temperature : [supported : BOOLEAN],
               max_tokens : [max : {None, Some(4096), Some(8192)}]],
        c \in [tokens : [max_context_window : {None, Some(4096), Some(128000)}],
               rate_limits : [requests_per_minute : {None, Some(60), Some(500)}]]}

CompareInit ==
    /\ Idle
    /\ \E family \in {FeatureCapabilities, ModalityCapabilities, LimitCapabilities} :
          call \in [fn : {"compare"}, source : family, target : family]
    /\ returned = None

\* CapabilityComparison::compare(source, target) returns
Compare ==
    /\ call.fn = "compare"
    /\ returned = None
    /\ \E r \in compare(call.source, call.target) : returned' = Some(r)
    /\ UNCHANGED <<pc, routerVars, routeVars, execVars, ret, now, log, call,
                 trackerVars>>

CompareNext == Compare

CompareSpec == CompareInit /\ [][CompareNext]_vars

\* compare has returned
Compared == call.fn = "compare" /\ returned # None

\* the elements of a Vec
Elems(v) == {v[i] : i \in 1..Len(v)}

C19_SelfComparisonLossless ==
    Compared =>
        LET report == Unwrap(returned).lossiness_report
        IN  /\ call.source = call.target =>
                  (~report.is_lossy /\ report.severity = "None")
            /\ report.is_lossy <=> report.lossiness_types # <<>>
            /\ report.severity = "None" <=> ~report.is_lossy

\* a capability with every feature was compared with itself
C19_Witness ==
    /\ Compared
    /\ call.source = call.target
    /\ call.source.features.function_calling /\ call.source.features.tool_use
    /\ call.source.features.json_mode /\ call.source.features.vision
    /\ ~Unwrap(returned).lossiness_report.is_lossy
    /\ Unwrap(returned).lossiness_report.severity = "None"

\* ---------------------------------------------------------------------
\* HTTP status mapping: http::error::map_http_error and
\* retry::ErrorMapper::from_status_code
\* ---------------------------------------------------------------------

\* A text is a sequence of pieces: a word, a number written in decimal, or
\* a blank.
W(s) == [piece |-> "word", s |-> s]
N(n) == [piece |-> "number", n |-> n]
SP == [piece |-> "space"]

\* serde_json::Value of a response body, as far as extract_error_details
\* looks at it: the members "error", "message" and "retry_after" of the top
\* level object; "error" is an object with "message" and "retry_after", or a
\* string.
ErrorObject(message, retry_after) ==
    [type |-> "object", message |-> message, retry_after |-> retry_after]
ErrorString(text) == [type |-> "string", text |-> text]
JsonValue(error, message, retry_after) ==
    [error |-> error, message |-> message, retry_after |-> retry_after]

\* a response body: its text, and what serde_json::from_str makes of it
\* (None when the text is not JSON)
Body(raw, json) == [raw |-> raw, json |-> json]

ErrorDetails(message, retry_after_seconds) ==
    [message |-> message, retry_after_seconds |-> retry_after_seconds]

extract_error_details(json) ==
    IF /\ json.error # None
       /\ Unwrap(json.error).type = "object"
       /\ Unwrap(json.error).message # None
    THEN Some(ErrorDetails(Unwrap(Unwrap(json.error).message),
                           Unwrap(json.error).retry_after))
    ELSE IF json.message # None
    THEN Some(ErrorDetails(Unwrap(json.message), json.retry_after))
    ELSE IF json.error # None /\ Unwrap(json.error).type = "string"
    THEN Some(ErrorDetails(Unwrap(json.error).text, None))
    ELSE None

\* message.find(open), then the next close after it
ExtractQuoted(message, open, close) ==
    LET starts == {i \in 1..Len(message) : message[i] = W(open)}
    IN  IF starts = {} THEN None
        ELSE LET start == CHOOSE i \in starts : \A j \in starts : i <= j
                 ends == {j \in (start + 1)..Len(message) : message[j] = W(close)}
             IN  IF ends = {} THEN None
                 ELSE LET end == CHOOSE j \in ends : \A k \in ends : j <= k
                      IN  Some(SubSeq(message, start + 1, end - 1))

extract_model_from_error(message) ==
    IF ExtractQuoted(message, "model '", "'") # None
    THEN ExtractQuoted(message, "model '", "'")
    ELSE ExtractQuoted(message, "model \"", "\"")

is_server_error(status) == status >= 500 /\ status <= 599
is_client_error(status) == status >= 400 /\ status <= 499

map_http_error(status, body, request_id) ==
    LET error_details ==
            IF body # None /\ Unwrap(body).json # None
            THEN extract_error_details(Unwrap(Unwrap(body).json))
            ELSE None
        error_message ==
            IF error_details # None THEN Unwrap(error_details).message
            ELSE IF body # None THEN Unwrap(body).raw
            ELSE <<W("HTTP error "), N(status)>>
        message_with_id ==
            error_message \o <<W(" [request_id: "), W(request_id), W("]")>>
    IN  IF status = 401 THEN AuthenticationError
        ELSE IF status = 429 THEN
            RateLimit(IF error_details # None
                         /\ Unwrap(error_details).retry_after_seconds # None
                      THEN Some(1000 * Unwrap(Unwrap(error_details).retry_after_seconds))
                      ELSE None)
        ELSE IF status = 400 THEN InvalidRequest(message_with_id)
        ELSE IF status = 404 THEN
            ModelNotAvailable(IF extract_model_from_error(error_message) # None
                              THEN Unwrap(extract_model_from_error(error_message))
                              ELSE <<W("unknown")>>)
        ELSE IF status = 408 \/ status = 504 THEN Timeout
        ELSE IF is_server_error(status) THEN ServerError(status, message_with_id)
        ELSE IF is_client_error(status) THEN InvalidRequest(message_with_id)
        ELSE Custom(<<W("HTTP_"), N(status)>>, message_with_id)

\* text.split_whitespace(), then the first token that parses as a u64
\* above 0 and below 3600
extract_retry_seconds(text) ==
    LET starts == {i \in 1..Len(text) :
                      /\ text[i] # SP /\ (i = 1 \/ text[i - 1] = SP)
                      /\ text[i].piece = "number"
                      /\ (i = Len(text) \/ text[i + 1] = SP)
                      /\ text[i].n > 0 /\ text[i].n < 3600}
    IN  IF starts = {} THEN None
        ELSE Some(text[CHOOSE i \in starts : \A j \in starts : i <= j].n)

ErrorMapper_parse_retry_after(body) ==
    IF /\ body # None
       /\ \E i \in 1..Len(Unwrap(body).raw) :
              Unwrap(body).raw[i] \in {W("retry_after"), W("retry-after")}
       /\ extract_retry_seconds(Unwrap(body).raw) # None
    THEN Some(1000 * Unwrap(extract_retry_seconds(Unwrap(body).raw)))
    ELSE None

\* body.unwrap_or(default).to_string()
BodyOr(body, default) ==
    IF body # None THEN Unwrap(body).raw ELSE <<W(default)>>

from_status_code(status, body) ==
    IF status = 401 \/ status = 403 THEN AuthenticationError
    ELSE IF status = 429 THEN RateLimit(ErrorMapper_parse_retry_after(body))
    ELSE IF status = 400 THEN InvalidRequest(BodyOr(body, "Bad request"))
    ELSE IF status = 404 THEN ModelNotAvailable(BodyOr(body, "unknown"))
    ELSE IF status = 408 \/ status = 504 THEN Timeout
    ELSE IF status >= 500 /\ status <= 599 THEN
        ServerError(status, BodyOr(body, "Internal server error"))
    ELSE Custom(<<N(status)>>, BodyOr(body, "Unknown error"))

\* the non-success statuses the mappers are applied to
Statuses ==
    {302, 400, 401, 402, 403, 404, 408, 418, 422, 429, 499,
     500, 502, 503, 504, 599, 600}

ModelNotFound ==
    <<W("The "), W("model '"), W("gpt-4"), W("'"), SP, W("does"), SP,
      W("not"), SP, W("exist")>>

ResponseBodies ==
    { None,
      \* not JSON
      Some(Body(<<W("Forbidden")>>, None)),
      Some(Body(<<W("retry_after"), W(":"), SP, N(5)>>, None)),
      Some(Body(<<W("model \""), W("claude-3"), W("\""), SP, W("missing")>>,
                None)),
      \* {"error":{"message":"The model 'gpt-4' does not exist"}}
      Some(Body(<<W("{\"error\":{\"message\":\"")>> \o ModelNotFound
                    \o <<W("\"}}")>>,
                Some(JsonValue(Some(ErrorObject(Some(ModelNotFound), None)),
                               None, None)))),
      \* {"error":{"message":"slow down","retry_after":30}}
      Some(Body(<<W("{\"error\":{\"message\":\""), W("slow"), SP, W("down"),
                  W("\",\""), W("retry_after"), W("\":"), N(30), W("}}")>>,
                Some(JsonValue(Some(ErrorObject(Some(<<W("slow"), SP, W("down")>>),
                                                Some(30))),
                               None, None)))),
      \* {"message": "busy", "retry_after": 7}
      Some(Body(<<W("{\"message\":"), SP, W("\"busy\","), SP, W("\""),
                  W("retry_after"), W("\":"), SP, N(7), W("}")>>,
                Some(JsonValue(None, Some(<<W("busy")>>), Some(7))))),
      \* {"error":"boom"}
      Some(Body(<<W("{\"error\":\"boom\"}")>>,
                Some(JsonValue(Some(ErrorString(<<W("boom")>>)), None, None)))),
      \* {}
      Some(Body(<<W("{}")>>, Some(JsonValue(None, None, None)))) }

RequestIds == {"req-1"}

MapInit ==
    /\ Idle
    /\ \/ call \in [fn : {"map_http_error"}, status : Statuses,
                    body : ResponseBodies, request_id : RequestIds]
       \/ call \in [fn : {"from_status_code"}, status : Statuses,
                    body : ResponseBodies]
    /\ returned = None

MapHttpError ==
    /\ call.fn = "map_http_error"
    /\ returned = None
    /\ returned' = Some(map_http_error(call.status, call.body, call.request_id))
    /\ UNCHANGED <<pc, routerVars, routeVars, execVars, ret, now, log, call,
                 trackerVars>>

FromStatusCode ==
    /\ call.fn = "from_status_code"
    /\ returned = None
    /\ returned' = Some(from_status_code(call.status, call.body))
    /\ UNCHANGED <<pc, routerVars, routeVars, execVars, ret, now, log, call,
                 trackerVars>>

MapNext == MapHttpError \/ FromStatusCode

MapSpec == MapInit /\ [][MapNext]_vars

\* one of the two mappers has returned
Mapped ==
    /\ call.fn \in {"map_http_error", "from_status_code"}
    /\ returned # None

\* the error kind the status table gives a status
TableKind(status) ==
    IF status \in {401, 403} THEN "AuthenticationError"
    ELSE IF status = 429 THEN "RateLimit"
    ELSE IF status = 400 THEN "InvalidRequest"
    ELSE IF status = 404 THEN "ModelNotAvailable"
    ELSE IF status \in {408, 504} THEN "Timeout"
    ELSE IF status >= 500 /\ status <= 599 THEN "ServerError"
    ELSE "Custom"

\* C20: both status-code mappers classify a non-success status by the
\* status alone, whatever the body: 401 and 403 give an authentication
\* error, 429 a rate limit, 400 an invalid request, 404 model not available,
\* 408 and 504 a timeout, every other 5xx a server error and every other
\* status a custom error.
C20_StatusAloneBothMappers ==
    Mapped => Unwrap(returned).kind = TableKind(call.status)

\* ---------------------------------------------------------------------
\* HttpClient::execute_json (http/client.rs)
\* ---------------------------------------------------------------------

\* MAX_RESPONSE_SIZE, 10 * 1024 * 1024 bytes
MAX_RESPONSE_SIZE == 10485760

\* HttpClient::new(): the client with the default response size limit
HttpClient_new == [max_response_size |-> MAX_RESPONSE_SIZE]

\* str::to_lowercase() of a header value, piece by piece
ToLowercase(text) ==
    [i \in 1..Len(text) |->
        IF text[i] = W("Application/JSON") THEN W("application/json")
        ELSE IF text[i] = W("Text/HTML") THEN W("text/html")
        ELSE text[i]]

\* str::contains(pattern)
StrContains(text, pattern) == \E i \in 1..Len(text) : text[i] = W(pattern)

\* HeaderValue::to_str().unwrap_or(""): a value with bytes outside visible
\* ASCII reads as the empty string
HeaderToStr(value) == IF value.visible_ascii THEN value.text ELSE <<>>

HeaderValue(text) == [visible_ascii |-> TRUE, text |-> text]
OpaqueHeaderValue ==
    [visible_ascii |-> FALSE, text |-> <<W("application/json"), W("<obs-text>")>>]

get_api_key(provider, env) ==
    IF provider \notin {"openai", "anthropic"}
    THEN Err(Custom(<<W("UNKNOWN_PROVIDER")>>,
                    <<W("Unknown provider: "), W(provider)>>))
    ELSE IF env[provider] = None THEN Err(AuthenticationError)
    ELSE Ok(Unwrap(env[provider]))

validate_content_type(response) ==
    IF response.content_type # None
    THEN LET content_type_str ==
                 ToLowercase(HeaderToStr(Unwrap(response.content_type)))
         IN  IF ~StrContains(content_type_str, "application/json")
             THEN Err(Custom(<<W("INVALID_CONTENT_TYPE")>>,
                             <<W("Expected application/json, got: ")>>
                                 \o content_type_str))
             ELSE Ok(<<>>)
    ELSE Ok(<<>>)

check_content_length(client, response) ==
    IF /\ response.content_length # None
       /\ Unwrap(response.content_length) > client.max_response_size
    THEN Err(Custom(<<W("RESPONSE_TOO_LARGE")>>,
                    <<W("Response size "), N(Unwrap(response.content_length)),
                      W(" exceeds maximum "), N(client.max_response_size)>>))
    ELSE Ok(<<>>)

\* what execute_json did and returned: its Result, the headers of the
\* request it sent (None when it sent none), and whether it read the body
\* of the response (response.text().await)
Executed(res, sent, body_read) ==
    [result |-> res, sent |-> sent, body_read |-> body_read]

RequestIdSuffix(request_id) == <<W(" [request_id: "), W(request_id), W("]")>>

is_success(status) == status >= 200 /\ status <= 299

\* the network's part of a call is `net`: the failure of send(), or the
\* response with its status, headers and body; body.read says whether
\* text().await succeeds, body.len is the length of the text, body.text its
\* content and body.chat the ChatResponse serde_json makes of it (None when
\* it is not one)
execute_json(client, provider, env, options, net) ==
    LET request_id == options.request_id
        api_key == get_api_key(provider, env)
        sent == Some([X_Request_ID |-> request_id,
                      Idempotency_Key |-> options.idempotency_key])
    IN  IF ~api_key.ok THEN Executed(Err(api_key.error), None, FALSE)
        ELSE IF net.kind = "timeout" THEN Executed(Err(Timeout), sent, FALSE)
        ELSE IF net.kind = "connect" THEN
            Executed(Err(NetworkError(<<W("Connection failed: "), W("error sending request")>>
                                          \o RequestIdSuffix(request_id))),
                     sent, FALSE)
        ELSE IF net.kind = "other" THEN
            Executed(Err(NetworkError(<<W("error sending request")>>
                                          \o RequestIdSuffix(request_id))),
                     sent, FALSE)
        ELSE IF ~is_success(net.status) THEN
            Executed(Err(map_http_error(net.status,
                                        IF net.body.read THEN Some(net.body.text)
                                        ELSE None,
                                        request_id)),
                     sent, TRUE)
        ELSE IF ~validate_content_type(net).ok THEN
            Executed(Err(validate_content_type(net).error), sent, FALSE)
        ELSE IF ~check_content_length(client, net).ok THEN
            Executed(Err(check_content_length(client, net).error), sent, FALSE)
        ELSE IF ~net.body.read THEN
            Executed(Err(NetworkError(<<W("Failed to read response body: "), W("error decoding response body")>>
                                          \o RequestIdSuffix(request_id))),
                     sent, TRUE)
        ELSE IF net.body.len > client.max_response_size THEN
            Executed(Err(Custom(<<W("RESPONSE_TOO_LARGE")>>,
                                <<W("Response size "), N(net.body.len),
                                  W(" exceeds maximum "), N(client.max_response_size)>>
                                    \o RequestIdSuffix(request_id))),
                     sent, TRUE)
        ELSE IF net.body.chat = None THEN
            Executed(Err(Custom(<<W("PARSE_ERROR")>>,
                                <<W("Invalid response format: "), W("expected value")>>
                                    \o RequestIdSuffix(request_id))),
                     sent, TRUE)
        ELSE Executed(Ok(Unwrap(net.body.chat)), sent, TRUE)

\* the environment: the API key variables that are set
Environments ==
    {[p \in {"openai", "anthropic"} |-> k[p]] :
        k \in [{"openai", "anthropic"} -> {None, Some("sk-1")}]}

HttpProviders == {"openai", "anthropic", "test"}

\* RequestOptions: the request ids of two requests, with and without an
\* idempotency key
HttpRequestOptions ==
    [request_id : {"req-1", "req-2"}, idempotency_key : {None, Some("idem-1")}]

HttpStatuses == {200, 201, 302, 400, 401, 403, 404, 408, 429, 500, 503}

\* Content-Type headers of a response
ContentTypes ==
    {None,
     Some(HeaderValue(<<W("application/json")>>)),
     Some(HeaderValue(<<W("application/json"), W("; charset=utf-8")>>)),
     Some(HeaderValue(<<W("Application/JSON")>>)),
     Some(HeaderValue(<<W("text/html")>>)),
     Some(HeaderValue(<<W("text/plain; profile="), W("application/json")>>)),
     Some(OpaqueHeaderValue)}

\* Content-Length headers of a response: absent (chunked), small, the
\* limit and one byte above it
ContentLengths ==
    {None, Some(100), Some(MAX_RESPONSE_SIZE), Some(MAX_RESPONSE_SIZE + 1)}

\* a chat completion, as text and as the ChatResponse parsed from it
ChatCompletionText == <<W("{\"id\":\"chatcmpl-1\",\"choices\":[]}")>>

\* the bodies of a response: one that cannot be read, and texts of a small
\* and of an excessive length that are or are not a ChatResponse
HttpBodies ==
    {[read |-> FALSE, len |-> 0, text |-> Body(<<>>, None), chat |-> None]}
    \cup
    {[read |-> TRUE, len |-> l, text |-> Body(ChatCompletionText,
                                              Some(JsonValue(None, None, None))),
      chat |-> Some("chatcmpl-1")] : l \in {100, MAX_RESPONSE_SIZE + 1}}
    \cup
    {[read |-> TRUE, len |-> l, text |-> Unwrap(b), chat |-> None] :
        l \in {100, MAX_RESPONSE_SIZE + 1},
        b \in {Some(Body(<<W("Forbidden")>>, None)),
               Some(Body(<<W("{\"error\":{\"message\":\"")>> \o ModelNotFound
                             \o <<W("\"}}")>>,
                         Some(JsonValue(Some(ErrorObject(Some(ModelNotFound), None)),
                                        None, None))))}}

\* what the network does with the request: send() fails, or a response
\* arrives
NetworkOutcomes ==
    [kind : {"timeout", "connect", "other"}]
    \cup
    [kind : {"response"}, status : HttpStatuses, content_type : ContentTypes,
     content_length : ContentLengths, body : HttpBodies]

HttpInit ==
    /\ Idle
    /\ call \in [fn : {"execute_json"}, client : {HttpClient_new},
                 provider : HttpProviders, env : Environments,
                 options : HttpRequestOptions, net : NetworkOutcomes]
    /\ returned = None

\* client.execute_json(provider, request, options) returns
\* (client.rs:130-270)
ExecuteJson ==
    /\ call.fn = "execute_json"
    /\ returned = None
    /\ returned' = Some(execute_json(call.client, call.provider, call.env,
                                     call.options, call.net))
    /\ UNCHANGED <<pc, routerVars, routeVars, execVars, ret, now, log, call,
                 trackerVars>>

HttpNext == ExecuteJson

HttpSpec == HttpInit /\ [][HttpNext]_vars

\* execute_json has returned
Executes == call.fn = "execute_json" /\ returned # None

\* execute_json sent the request and received a response
Responded ==
    /\ Executes
    /\ Unwrap(returned).sent # None
    /\ call.net.kind = "response"

\* C21: for any response, whatever its status and content type, whose
\* Content-Length exceeds max_response_size, execute_json returns the
\* error RESPONSE_TOO_LARGE without reading the body of the response.
C21_OversizeRejectedUnread ==
    (/\ Responded
     /\ call.net.content_length # None
     /\ Unwrap(call.net.content_length) > call.client.max_response_size)
    => LET r == Unwrap(returned)
       IN  /\ ~r.result.ok
           /\ r.result.error.kind = "Custom"
           /\ r.result.error.code = <<W("RESPONSE_TOO_LARGE")>>
           /\ ~r.body_read

\* the text begins with the pattern
StartsWith(text, pattern) == Len(text) >= 1 /\ text[1] = W(pattern)

\* the error is Custom with this code
IsCustom(res, code) ==
    /\ ~res.ok
    /\ res.error.kind = "Custom"
    /\ res.error.code = <<W(code)>>

\* C22: a 2xx response is accepted only if the value of its Content-Type
\* header begins with application/json; with any other value, with a value
\* that has application/json later in the string, or with no Content-Type
\* header, execute_json returns the error INVALID_CONTENT_TYPE and has not
\* read the body.
C22_ContentTypeMustBeginWithJson ==
    (Responded /\ is_success(call.net.status)) =>
        LET r == Unwrap(returned)
            begins ==
                /\ call.net.content_type # None
                /\ StartsWith(ToLowercase(HeaderToStr(Unwrap(call.net.content_type))),
                              "application/json")
        IN  IF begins
            THEN ~IsCustom(r.result, "INVALID_CONTENT_TYPE")
            ELSE IsCustom(r.result, "INVALID_CONTENT_TYPE") /\ ~r.body_read

\* the error has a message and the message holds the request id
EmbedsRequestId(e, request_id) ==
    /\ "message" \in DOMAIN e
    /\ \E i \in 1..Len(e.message) : e.message[i] = W(request_id)

\* C23: every error execute_json returns holds the request id of the
\* request in its message, whatever its kind.
C23_ErrorsEmbedRequestId ==
    (Executes /\ ~Unwrap(returned).result.ok) =>
        EmbedsRequestId(Unwrap(returned).result.error, call.options.request_id)

\* ---------------------------------------------------------------------
\* The wire body: providers/json_transform.rs
\* ---------------------------------------------------------------------

\* the content of a message in Anthropic's format (json_transform.rs:59-105):
\* the text, or the content blocks of the parts; an image part carries its
\* data, an audio part is skipped
RECURSIVE ContentBlocks(_)
ContentBlocks(parts) ==
    IF parts = <<>> THEN <<>>
    ELSE (CASE Head(parts).type = "text" ->
                  <<[type |-> "text", text |-> Head(parts).text]>>
            [] Head(parts).type = "image" ->
                  <<[type |-> "image", media_type |-> "image/jpeg"]>>
            [] OTHER -> <<>>)
         \o ContentBlocks(Tail(parts))

AnthropicContent(content) ==
    IF content.kind = "Text" THEN content.text
    ELSE ContentBlocks(content.parts)

\* the loop over request.messages (json_transform.rs:39-113) on the
\* accumulator [system_prompt, messages]
RECURSIVE AnthropicMessagesLoop(_, _)
AnthropicMessagesLoop(acc, messages) ==
    IF messages = <<>> THEN acc
    ELSE LET message == Head(messages)
             next ==
                 CASE message.role = "system" ->
                        IF message.content.kind = "Text"
                        THEN [acc EXCEPT !.system_prompt = Some(message.content.text)]
                        ELSE acc
                   [] message.role \in {"user", "assistant"} ->
                        [acc EXCEPT !.messages =
                            Append(@, [role |-> message.role,
                                       content |-> AnthropicContent(message.content)])]
                   [] OTHER -> acc
         IN  AnthropicMessagesLoop(next, Tail(messages))

\* the metadata keys openai_request_to_anthropic_json does not copy
\* (json_transform.rs:136-148)
HandledKeys ==
    {"max_tokens", "temperature", "top_p", "stream", "stop", "n",
     "presence_penalty", "frequency_penalty", "seed", "logprobs",
     "response_format"}

\* map.insert(key, value) when the option is set
InsertSome(m, k, o) == IF o # None THEN Insert(m, k, Unwrap(o)) ELSE m

\* the loop over request.metadata (json_transform.rs:134-153)
RECURSIVE InsertMetadata(_, _, _)
InsertMetadata(m, metadata, keys) ==
    IF keys = {} THEN m
    ELSE LET key == CHOOSE k \in keys : TRUE
         IN  InsertMetadata(IF key \notin HandledKeys
                            THEN Insert(m, key, metadata[key]) ELSE m,
                            metadata, keys \ {key})

openai_request_to_anthropic_json(req) ==
    LET m1 == Insert(EmptyMap, "model", req.model)
        m2 == InsertSome(m1, "max_tokens", req.max_tokens)
        m3 == InsertSome(m2, "temperature", req.temperature)
        m4 == InsertSome(m3, "top_p", req.top_p)
        loop == AnthropicMessagesLoop([system_prompt |-> None, messages |-> <<>>],
                                      req.messages)
        m5 == InsertSome(m4, "system", loop.system_prompt)
        m6 == Insert(m5, "messages", loop.messages)
        m7 == InsertSome(m6, "stream", req.stream)
        m8 == InsertSome(m7, "stop_sequences", req.stop)
    IN  InsertMetadata(m8, req.metadata, DOMAIN req.metadata)

\* serde_json::to_value(request): the object of the fields of ChatRequest
\* that are set
ToValue(req) ==
    [k \in {f \in DOMAIN req : f \in {"model", "messages", "metadata"} \/ req[f] # None}
        |-> req[k]]

request_to_provider_json(req, provider_name) ==
    IF provider_name = "anthropic" THEN openai_request_to_anthropic_json(req)
    ELSE ToValue(req)

\* the metadata a caller gives a request on its way to the wire: none, its
\* own key, a key the wire body leaves out, or the lossiness keys of an
\* earlier transformation
WireMetadata ==
    CallerMetadata \cup {Insert(EmptyMap, "seed", 7)}

\* the requests that set optional fields on their way to the wire
WireOptionRequests ==
    [model : {"claude-3"},
     messages : {<<Message("user", Text(<<"m1">>))>>,
                 <<Message("system", Text(<<"m1">>)), Message("user", Text(<<"m2">>))>>,
                 <<Message("user", Text(<<"m1">>)), Message("user", Text(<<"m2">>))>>},
     temperature : {None, Some(1)}, max_tokens : {None, Some(100)},
     top_p : {None, Some(1)}, stream : {None, Some(TRUE)},
     response_format : {None, Some("json_object")},
     tools : {None, Some(<<>>)}, tool_choice : {None},
     stop : {None, Some(<<"END">>)}, metadata : WireMetadata]

\* a canonical request is transformed by the engine for a target and the
\* result is written as the target's wire body
WireInit ==
    /\ Idle
    /\ \E target \in {AnthropicProvider, OpenAIProvider} :
          \/ \E n \in 0..MaxMessages :
                \E f \in [1..n -> Roles \X ContentKinds] :
                   call = [fn |-> "request_to_provider_json", target |-> target,
                           request |-> ChatRequest_new("claude-3", MessageList(n, f))]
          \/ \E req \in WireOptionRequests :
                call = [fn |-> "request_to_provider_json", target |-> target,
                        request |-> req]
    /\ returned = None

\* request_to_provider_json(engine.transform_request(R).transformed, name)
\* returns (json_transform.rs:286-295)
RequestToProviderJson ==
    /\ call.fn = "request_to_provider_json"
    /\ returned = None
    /\ LET t == engine_transform_request(call.target, call.request)
       IN  returned' = Some([transform |-> t,
                             wire |-> request_to_provider_json(t.transformed,
                                                               call.target.name)])
    /\ UNCHANGED <<pc, routerVars, routeVars, execVars, ret, now, log, call,
                 trackerVars>>

WireNext == RequestToProviderJson

WireSpec == WireInit /\ [][WireNext]_vars

\* the Anthropic wire body of a transformed request has been produced
AnthropicWired ==
    /\ call.fn = "request_to_provider_json"
    /\ call.target.name = "anthropic"
    /\ returned # None

\* C24: for every canonical request, the messages array of the Anthropic
\* wire body made from the engine's output has no system-role entry and no
\* two adjacent entries of the same role, also when the request has tool-
\* or function-role messages between two user or two assistant messages.
C24_WireMessagesAlternate ==
    AnthropicWired =>
        LET ms == Unwrap(returned).wire["messages"]
        IN  /\ \A i \in 1..Len(ms) : ms[i].role # "system"
            /\ \A i \in 2..Len(ms) : ms[i - 1].role # ms[i].role

\* the top-level fields of the Anthropic wire format
AnthropicWireKeys ==
    {"model", "max_tokens", "temperature", "top_p", "system", "messages",
     "stream", "stop_sequences"}

\* C25: for every canonical request that has passed through the engine and
\* the Anthropic adapter hook, the top-level keys of the Anthropic wire body
\* are among model, max_tokens, temperature, top_p, system, messages, stream
\* and stop_sequences: neither the engine's metadata entries nor the
\* caller's metadata are top-level fields.
C25_WireKeysAreAnthropicFields ==
    AnthropicWired => DOMAIN Unwrap(returned).wire \subseteq AnthropicWireKeys

\* ---------------------------------------------------------------------
\* The engine on requests whose first message after the system messages
\* is not the user's
\* ---------------------------------------------------------------------

IsSystem(m) == m.role = "system"
NotSystem(m) == m.role # "system"

\* the texts of the system messages of ms joined in order by a blank line
RECURSIVE JoinedSystemText(_)
JoinedSystemText(ms) ==
    IF ms = <<>> THEN <<>>
    ELSE IF ~IsSystem(Head(ms)) THEN JoinedSystemText(Tail(ms))
    ELSE LET rest == JoinedSystemText(Tail(ms))
         IN  IF rest = <<>> THEN Head(ms).content.text
             ELSE Joined(Head(ms).content.text, rest)

\* the engine merged the system messages of a request whose system
\* messages are non-empty texts and whose first non-system message is not a
\* user message
SystemBeforeNonUser ==
    /\ SystemMerged
    /\ LET in == call.request.messages
           rest == SelectSeq(in, NotSystem)
       IN  /\ rest # <<>>
           /\ rest[1].role # "user"
           /\ \A i \in 1..Len(in) :
                 IsSystem(in[i]) =>
                    (in[i].content.kind = "Text" /\ in[i].content.text # <<>>)

\* C26: when the target lacks the system role and the first non-system
\* message of the request is not a user message, the transformed request
\* is a new user message holding the joined system text followed by the
\* other messages of the request unchanged (checked where those messages,
\* so placed, have no two neighbours of one role for the engine to merge).
C26_SystemTextLeadsNonUser ==
    SystemBeforeNonUser =>
        LET in == call.request.messages
            expected == <<Message("user", Text(JoinedSystemText(in)))>>
                            \o SelectSeq(in, NotSystem)
        IN  NoAdjacentSameRole(expected) =>
               Unwrap(returned).transformed.messages = expected

\* ---------------------------------------------------------------------
\* The engine with a target of limited capabilities
\* ---------------------------------------------------------------------

\* the capabilities an implementation of Provider may declare
\* (adapter.rs:37-68): here it keeps the system role and consecutive
\* messages of one role, and may lack function calling and each sampling
\* control; its context window is tiny, small or that of the default
LimitedCapabilities ==
    [supports_system_role : {TRUE}, supports_json_mode : {FALSE},
     supports_functions : BOOLEAN, supports_streaming : {TRUE},
     max_context_tokens : {1, 260, 4096},
     supports_consecutive_same_role : {TRUE},
     supports_temperature : BOOLEAN, supports_top_p : BOOLEAN,
     supports_max_tokens : BOOLEAN]

\* providers declaring them, whose transform_request returns the request
\* as it is
LimitedProviders ==
    {[name |-> "limited", capabilities |-> c] : c \in LimitedCapabilities}

\* message lists of 0, 4, 5, 1000, 1005 and 16400 characters
MeasuredMessageLists ==
    {<<>>,
     <<Message("user", Text(<<"hey!">>))>>,
     <<Message("user", Text(<<"hello">>))>>,
     <<Message("user", Parts(<<ImagePart>>))>>,
     <<Message("user", Parts(<<TextPart(<<"hello">>), ImagePart>>))>>,
     <<Message("user", Text(<<"he">>)), Message("assistant", Text(<<"llo">>))>>,
     <<Message("user", Text(LongText))>>}

LimitedRequests ==
    [model : {"gpt-4"}, messages : MeasuredMessageLists,
     temperature : {None, Some(1)}, max_tokens : {None, Some(100)},
     top_p : {None, Some(1)}, stream : {None},
     response_format : {None},
     tools : {None, Some(<<>>)}, tool_choice : {None, Some("auto")},
     stop : {None}, metadata : {EmptyMap}]

LimitedInit ==
    /\ Idle
    /\ call \in [fn : {"transform_request"}, target : LimitedProviders,
                 request : LimitedRequests]
    /\ returned = None

LimitedSpec == LimitedInit /\ [][TransformNext]_vars

\* the number of times the reason is in the list
ReasonCount(reasons, reason) ==
    Cardinality({n \in 1..Len(reasons) : reasons[n] = reason})

SamplingControls == {"temperature", "top_p", "max_tokens"}

\* C27: for each of temperature, top_p and max_tokens that the target's
\* capabilities mark unsupported and the request sets, the transformed
\* request has the control unset and the reasons hold
\* param.unsupported.<name> exactly once; a control the target supports, or
\* the request does not set, is unchanged and gives no reason.
C27_UnsupportedControlsDropped ==
    Transformed =>
        LET r == Unwrap(returned)
            caps == call.target.capabilities
        IN  \A c \in SamplingControls :
               IF call.request[c] # None /\ ~caps["supports_" \o c]
               THEN /\ r.transformed[c] = None
                    /\ ReasonCount(r.reasons, "param.unsupported." \o c) = 1
               ELSE /\ r.transformed[c] = call.request[c]
                    /\ ReasonCount(r.reasons, "param.unsupported." \o c) = 0

\* C28: after transform_request against a target without function calling,
\* the transformed request has neither tools nor tool_choice, whether the
\* request had tools only, tool_choice only or both, and the reason
\* tools.function_calling.unsupported is recorded whenever one of them was
\* dropped.
C28_ToolDirectivesDropped ==
    (Transformed /\ ~call.target.capabilities.supports_functions) =>
        LET r == Unwrap(returned)
        IN  /\ r.transformed.tools = None
            /\ r.transformed.tool_choice = None
            /\ (call.request.tools # None \/ call.request.tool_choice # None) =>
                  ReasonCount(r.reasons, "tools.function_calling.unsupported") >= 1

\* the characters of the texts of the messages, and the number of their
\* parts that are not text
RECURSIVE PartsTextChars(_)
PartsTextChars(parts) ==
    IF parts = <<>> THEN 0
    ELSE (IF Head(parts).type = "text" THEN TextLen(Head(parts).text) ELSE 0)
         + PartsTextChars(Tail(parts))
RECURSIVE TextChars(_)
TextChars(messages) ==
    IF messages = <<>> THEN 0
    ELSE (IF Head(messages).content.kind = "Text"
          THEN TextLen(Head(messages).content.text)
          ELSE PartsTextChars(Head(messages).content.parts))
         + TextChars(Tail(messages))
RECURSIVE NonTextParts(_)
NonTextParts(messages) ==
    IF messages = <<>> THEN 0
    ELSE (IF Head(messages).content.kind = "Parts"
          THEN Cardinality({i \in 1..Len(Head(messages).content.parts) :
                               Head(messages).content.parts[i].type # "text"})
          ELSE 0)
         + NonTextParts(Tail(messages))

\* the ceiling of a quarter of the characters of the text, and 1000 for
\* each part that is not text
CeilingEstimate(messages) ==
    (TextChars(messages) + 3) \div 4 + 1000 * NonTextParts(messages)

\* C29: the token estimate is the ceiling of the character count of all
\* message text over 4, plus 1000 for each non-text part;
\* limits.max_tokens.exceeded is recorded exactly when the estimate is
\* strictly greater than the target's context window, and recording it
\* leaves the messages as they are.
C29_CeilingEstimateDecidesLimit ==
    (Transformed /\ call.target.name = "limited") =>
        LET r == Unwrap(returned)
        IN  /\ estimate_tokens(call.request) = CeilingEstimate(call.request.messages)
            /\ ReasonCount(r.reasons, "limits.max_tokens.exceeded") >= 1
                  <=> CeilingEstimate(call.request.messages)
                         > call.target.capabilities.max_context_tokens
            /\ r.transformed.messages = call.request.messages

(***************************************************************************)
(* RateLimitTracker (providers/rate_limit.rs): one RateLimitInfo behind an *)
(* Arc<Mutex<..>>, shared by the threads of Threads.  Each statement of a  *)
(* method is a step of the calling thread; lock() is the step that waits   *)
(* for the Mutex.  `call` holds the build: with overflow checks (the dev   *)
(* profile) an overflowing `+=` panics, without them (the release profile) *)
(* it wraps.                                                               *)
(***************************************************************************)

\* the calls each thread makes on the tracker
MaxCalls == 2

U32_MAX == [hi |-> Limb - 1, lo |-> Limb - 1]

\* a <= b on u32
U32Leq(a, b) == a.hi < b.hi \/ (a.hi = b.hi /\ a.lo <= b.lo)

\* u32 addition: the 32 low bits of a + b and whether a + b has more
overflowing_add(a, b) ==
    LET lo == a.lo + b.lo
        hi == a.hi + b.hi + (lo \div Limb)
    IN  [value |-> [hi |-> hi % Limb, lo |-> lo % Limb],
         overflow |-> hi >= Limb]

\* u32::saturating_sub
saturating_sub(a, b) ==
    IF U32Leq(b, a)
    THEN LET borrow == IF a.lo < b.lo THEN 1 ELSE 0
         IN  [hi |-> a.hi - b.hi - borrow, lo |-> a.lo + borrow * Limb - b.lo]
    ELSE U32(0)

\* a header value: whether val.parse::<u32>() succeeds, and the number
HeaderNumber(n) == [parses |-> TRUE, num |-> U32(n)]
HeaderGarbage == [parses |-> FALSE, num |-> U32(0)]

\* the header's value as Some(num) when it is present and parses
ParsedHeader(headers, name) ==
    IF name \in DOMAIN headers /\ headers[name].parses
    THEN Some(headers[name].num) ELSE None

\* Some(new) when the header gave a number, the old field otherwise
SetIfParsed(old, parsed) == IF parsed # None THEN parsed ELSE old

\* RateLimitTracker::update_from_headers, applied to the RateLimitInfo
update_from_headers(i, headers) ==
    [i EXCEPT
       !.requests_per_minute =
           SetIfParsed(@, ParsedHeader(headers, "x-ratelimit-limit-requests")),
       !.requests_remaining =
           SetIfParsed(@, ParsedHeader(headers, "x-ratelimit-remaining-requests")),
       !.reset_at =
           SetIfParsed(@, ParsedHeader(headers, "x-ratelimit-reset-requests")),
       !.tokens_per_minute =
           SetIfParsed(@, ParsedHeader(headers, "x-ratelimit-limit-tokens")),
       !.tokens_remaining =
           SetIfParsed(@, ParsedHeader(headers, "x-ratelimit-remaining-tokens"))]

\* the response headers the tracker is set up from
RateLimitHeaders ==
    { << >>,
      [h \in {"x-ratelimit-limit-requests", "x-ratelimit-remaining-requests",
              "x-ratelimit-limit-tokens", "x-ratelimit-remaining-tokens"} |->
         CASE h = "x-ratelimit-limit-requests" -> HeaderNumber(60)
           [] h = "x-ratelimit-remaining-requests" -> HeaderNumber(59)
           [] h = "x-ratelimit-limit-tokens" -> HeaderNumber(10000)
           [] OTHER -> HeaderNumber(9500)],
      [h \in {"x-ratelimit-remaining-requests", "x-ratelimit-remaining-tokens",
              "x-ratelimit-reset-requests"} |->
         CASE h = "x-ratelimit-remaining-requests" -> HeaderNumber(1)
           [] h = "x-ratelimit-remaining-tokens" -> HeaderNumber(150)
           [] OTHER -> HeaderNumber(1700000000)],
      [h \in {"x-ratelimit-remaining-requests", "x-ratelimit-remaining-tokens"} |->
         CASE h = "x-ratelimit-remaining-requests" -> HeaderGarbage
           [] OTHER -> [parses |-> TRUE, num |-> U32_MAX]] }

\* the tokens_used a record_request call is given
TokenCounts == {U32(100), [hi |-> 40000, lo |-> 0]}

TrackerInit ==
    /\ Idle
    /\ call \in [fn : {"RateLimitTracker"}, overflow_checks : BOOLEAN]
    /\ returned = None

\* the other variables of the module stay as they are
TrackerFrame == UNCHANGED <<pc, routerVars, routeVars, execVars, ret, now, log, fnVars>>

\* no thread has started yet
Setup == whole = <<>>

\* tracker.update_from_headers(&headers), before the threads start
UpdateFromHeaders ==
    /\ Setup
    /\ info = RateLimitInfo_default
    /\ \E headers \in RateLimitHeaders :
          info' = update_from_headers(info, headers)
    /\ UNCHANGED <<mutex, threads, calls, whole, snaps>>
    /\ TrackerFrame

\* the tracker is handed to the threads
Share ==
    /\ Setup
    /\ whole' = <<info>>
    /\ UNCHANGED <<info, mutex, threads, calls, snaps>>
    /\ TrackerFrame

\* thread t may begin another call
MayCall(t) ==
    /\ ~Setup
    /\ threads[t].pc = "idle"
    /\ threads[t].done < MaxCalls

\* self.info.lock().unwrap() by thread t entering `method`: the thread gets
\* the Mutex when it is free; a poisoned Mutex makes unwrap() panic
Lock(t, method, tokens) ==
    /\ mutex.holder = 0
    /\ IF mutex.poisoned
       THEN /\ threads' = [threads EXCEPT ![t].pc = "panicked"]
            /\ UNCHANGED mutex
       ELSE /\ threads' = [threads EXCEPT ![t].pc = method,
                                          ![t].tokens_used = tokens]
            /\ mutex' = [mutex EXCEPT !.holder = t]

\* record_request line 109
RecordLock(t) ==
    /\ MayCall(t)
    /\ \E tokens \in TokenCounts : Lock(t, "record_109", tokens)
    /\ UNCHANGED <<info, calls, whole, snaps>>
    /\ TrackerFrame

\* `field += amount` on a u32 in thread t, which then stands at `next`: a
\* sum that does not fit wraps without overflow checks and panics with
\* them, the panic dropping the guard and poisoning the Mutex
AddAssign(t, field, amount, next) ==
    LET sum == overflowing_add(info[field], amount)
    IN  IF sum.overflow /\ call.overflow_checks
        THEN /\ threads' = [threads EXCEPT ![t].pc = "panicked"]
             /\ mutex' = [holder |-> 0, poisoned |-> TRUE]
             /\ calls' = Append(calls, threads[t].tokens_used)
             /\ UNCHANGED info
        ELSE /\ info' = [info EXCEPT ![field] = sum.value]
             /\ threads' = [threads EXCEPT ![t].pc = next]
             /\ UNCHANGED <<mutex, calls>>

\* record_request line 110: info.requests_used += 1
RecordRequestsUsed(t) ==
    /\ threads[t].pc = "record_109"
    /\ AddAssign(t, "requests_used", U32(1), "record_110")
    /\ UNCHANGED <<whole, snaps>>
    /\ TrackerFrame

\* record_request line 111: info.tokens_used += tokens_used
RecordTokensUsed(t) ==
    /\ threads[t].pc = "record_110"
    /\ AddAssign(t, "tokens_used", threads[t].tokens_used, "record_111")
    /\ UNCHANGED <<whole, snaps>>
    /\ TrackerFrame

\* Some(remaining.saturating_sub(amount)) when the count is known
SubRemaining(remaining, amount) ==
    IF remaining # None THEN Some(saturating_sub(Unwrap(remaining), amount))
    ELSE None

\* record_request lines 114-116
RecordRequestsRemaining(t) ==
    /\ threads[t].pc = "record_111"
    /\ info' = [info EXCEPT !.requests_remaining = SubRemaining(@, U32(1))]
    /\ threads' = [threads EXCEPT ![t].pc = "record_116"]
    /\ UNCHANGED <<mutex, calls, whole, snaps>>
    /\ TrackerFrame

\* record_request lines 117-120: the last update, then the guard is dropped
\* and the call returns
RecordTokensRemaining(t) ==
    /\ threads[t].pc = "record_116"
    /\ info' = [info EXCEPT
                  !.tokens_remaining = SubRemaining(@, threads[t].tokens_used)]
    /\ mutex' = [mutex EXCEPT !.holder = 0]
    /\ threads' = [threads EXCEPT ![t].pc = "idle", ![t].done = @ + 1]
    /\ calls' = Append(calls, threads[t].tokens_used)
    /\ whole' = Append(whole, info')
    /\ UNCHANGED snaps
    /\ TrackerFrame

\* get_info line 124, lock().unwrap()
GetInfoLock(t) ==
    /\ MayCall(t)
    /\ Lock(t, "get_info_124", <<>>)
    /\ UNCHANGED <<info, calls, whole, snaps>>
    /\ TrackerFrame

\* get_info line 124, .clone(): the copy is returned and the guard dropped
GetInfoClone(t) ==
    /\ threads[t].pc = "get_info_124"
    /\ snaps' = snaps \cup {info}
    /\ mutex' = [mutex EXCEPT !.holder = 0]
    /\ threads' = [threads EXCEPT ![t].pc = "idle", ![t].done = @ + 1]
    /\ UNCHANGED <<info, calls, whole>>
    /\ TrackerFrame

TrackerNext ==
    \/ UpdateFromHeaders
    \/ Share
    \/ \E t \in Threads :
          \/ RecordLock(t)
          \/ RecordRequestsUsed(t)
          \/ RecordTokensUsed(t)
          \/ RecordRequestsRemaining(t)
          \/ RecordTokensRemaining(t)
          \/ GetInfoLock(t)
          \/ GetInfoClone(t)

TrackerSpec == TrackerInit /\ [][TrackerNext]_vars

\* the sums of the high and of the low limbs of the counts in `seq`
RECURSIVE SumHi(_)
SumHi(seq) == IF seq = <<>> THEN 0 ELSE Head(seq).hi + SumHi(Tail(seq))

RECURSIVE SumLo(_)
SumLo(seq) == IF seq = <<>> THEN 0 ELSE Head(seq).lo + SumLo(Tail(seq))

\* the u32 `value` is the sum of the counts in `seq`, as numbers
EqualsSum(value, seq) ==
    /\ value.lo = SumLo(seq) % Limb
    /\ value.hi = SumHi(seq) + (SumLo(seq) \div Limb)

\* no thread is inside a call on the shared tracker
Quiescent == \A t \in Threads : threads[t].pc \in {"idle", "panicked"}

\* every call is counted: requests_used = n, tokens_used = t_1 + ... + t_n
NoUpdateLost ==
    Quiescent =>
        /\ info.requests_used = U32(Len(calls))
        /\ EqualsSum(info.tokens_used, calls)

\* get_info returned only values info had between two whole calls
SnapshotsAreWhole == snaps \subseteq {whole[i] : i \in 1..Len(whole)}

\* `after` is `before` less `amount`, or 0 where that is below zero; an
\* unknown count stays unknown
Decreased(before, after, amount) ==
    IF before = None
    THEN after = None
    ELSE /\ after # None
         /\ IF U32Leq(amount, Unwrap(before))
            THEN overflowing_add(Unwrap(after), amount)
                     = [value |-> Unwrap(before), overflow |-> FALSE]
            ELSE Unwrap(after) = U32(0)

\* each whole call takes 1 and its t_i from the remaining counts
RemainingSaturates ==
    \A i \in 1..(Len(whole) - 1) :
        /\ Decreased(whole[i].requests_remaining,
                     whole[i + 1].requests_remaining, U32(1))
        /\ Decreased(whole[i].tokens_remaining,
                     whole[i + 1].tokens_remaining, calls[i])

\* C30: for a RateLimitTracker shared by several threads, after any
\* interleaving of n record_request(t_i) calls and get_info calls,
\* requests_used is n and tokens_used is the sum of the t_i, every get_info
\* snapshot is a value info had between two whole record_request calls, and
\* the remaining counts, when known, go down by 1 and by t_i per call and
\* stop at 0.
C30_TrackerCountsEveryCall ==
    /\ NoUpdateLost
    /\ SnapshotsAreWhole
    /\ RemainingSaturates

====
